---- MODULE Spec2Model ----
(***************************************************************************)
(* Secret resolution and generation engine of the application controller   *)
(* (pkg/controller/appdefinition/secret.go).  One reconciliation pass is    *)
(* CreateSecrets; it walks the descriptors in secretsOrdered order and      *)
(* resolves each through getOrCreateSecret, which re-enters itself for a    *)
(* TLS descriptor's caSecret.  Every store call (Get, List, Create) is one  *)
(* step, because the store may answer it with a fault.                      *)
(***************************************************************************)
EXTENDS Integers, Sequences, FiniteSets, TLC

(***************************************************************************)
(* Bounds of the model.                                                     *)
(***************************************************************************)
\* passes one controller worker runs in a row
MaxPasses == 2
\* store faults (Forbidden, Conflict) injected in one behaviour
MaxFaults == 1

(***************************************************************************)
(* Names and their byte strings (Go compares strings bytewise).             *)
(***************************************************************************)
DescNames == {"a", "a-b", "b"}

\* a name no descriptor carries: a caSecret may still point at it
NoDescName == "x"

SecretNames == DescNames \cup {NoDescName}

Bytes(s) ==
    CASE s = "a"   -> <<97>>
      [] s = "a-b" -> <<97, 45, 98>>
      [] s = "b"   -> <<98>>
      [] s = "x"   -> <<120>>
      [] OTHER     -> <<>>

RECURSIVE BytesLess(_, _)
BytesLess(x, y) ==
    IF y = <<>> THEN FALSE
    ELSE IF x = <<>> THEN TRUE
    ELSE IF Head(x) # Head(y) THEN Head(x) < Head(y)
    ELSE BytesLess(Tail(x), Tail(y))

StrLess(s, t) == BytesLess(Bytes(s), Bytes(t))

(***************************************************************************)
(* Byte values held in a secret's Data map.  k is what the bytes are, len   *)
(* their length, id tells two random values apart, by is the id of the CA   *)
(* certificate that signed a certificate.                                   *)
(***************************************************************************)
Val(k, len, id, by) == [k |-> k, len |-> len, id |-> id, by |-> by]

Empty == Val("empty", 0, 0, 0)

\* Data[key] of a Go map: the zero value when the key is absent
At(data, key) == IF key \in DOMAIN data THEN data[key] ELSE Empty

\* seedData: one entry per listed key, []byte(from[key])
seedData(from, keys) == [key \in keys |-> At(from, key)]

(***************************************************************************)
(* Descriptors (v1.Secret of the app spec), bindings and the application.   *)
(* Optional is a *bool: "nil", "true" or "false".  Params holds what the    *)
(* generators read: caSecret, job, format, and whether convert.ToObj        *)
(* accepts the parameter map (ok).                                          *)
(***************************************************************************)
Desc(type, optional, data, ca, job, format, ok) ==
    [Type |-> type, Optional |-> optional, Data |-> data,
     Params |-> [caSecret |-> ca, job |-> job, format |-> format, ok |-> ok]]

NoData == [k \in {} |-> Empty]

SeededCertKey == [k \in {"tls.crt", "tls.key"} |-> Val("seed", 5, 41, 0)]

SeededCA == [k \in {"ca.crt", "ca.key"} |-> Val("seed", 5, 42, 0)]

\* seedData: {ca.crt: <seed>}, no ca.key
HalfSeededCA == [k \in {"ca.crt"} |-> Val("seed", 5, 46, 0)]

SeededUser == [k \in {"username"} |-> Val("seed", 5, 43, 0)]

SeededContent == [k \in {"content"} |-> Val("seed", 5, 44, 0)]

\* seedData: {username: "", password: <seed>}
SeededPassword ==
    [k \in {"username", "password"} |->
        IF k = "username" THEN Empty ELSE Val("seed", 5, 45, 0)]

\* descriptors that need no other descriptor and no job
PlainDescs ==
    { Desc("docker", "nil", NoData, "", "", "", TRUE),
      Desc("basic", "false", SeededUser, "", "", "", TRUE),
      Desc("basic", "nil", SeededPassword, "", "", "", TRUE),
      Desc("basic", "nil", NoData, "", "", "", TRUE),
      Desc("ssh-auth", "nil", NoData, "", "", "", TRUE),
      Desc("", "nil", NoData, "", "", "", TRUE),
      Desc("", "true", NoData, "", "", "", TRUE),
      Desc("tls", "nil", NoData, "", "", "", TRUE),
      Desc("tls", "false", SeededCertKey, "", "", "", TRUE),
      Desc("tls", "nil", NoData, "", "", "", FALSE) }

\* TLS leaves: the CA comes from the secret named caSecret, or from seeds
LeafDescs ==
    { Desc("tls", opt, NoData, ca, "", "", TRUE) :
        opt \in {"nil", "true"}, ca \in SecretNames }
    \cup { Desc("tls", "nil", SeededCA, "b", "", "", TRUE) }

\* job-derived descriptors; all read the one job of the model
TheJob == "j"

GeneratedDescs ==
    { Desc("generated", "nil", NoData, "", TheJob, "text", TRUE),
      Desc("generated", "true", SeededContent, "", TheJob, "json", TRUE),
      Desc("generated", "false", SeededContent, "", TheJob, "", TRUE) }

Descriptors == PlainDescs \cup LeafDescs \cup GeneratedDescs

\* app.Spec.Secrets: the binding list, in declaration order
Binding(request, secret) == [SecretRequest |-> request, Secret |-> secret]

BindingLists ==
    { <<>>,
      <<Binding("a", "e1")>>,
      <<Binding("b", "e1")>>,
      <<Binding("a", "e0")>>,
      <<Binding("b", "e0"), Binding("b", "e2")>>,
      <<Binding("x", "e2")>> }

\* the external secrets a binding may name; "e0" does not exist
Externals ==
    [n \in {"e1", "e2"} |->
        IF n = "e1"
        THEN [UID |-> 0, SecretName |-> "", AppUID |-> "",
              Data |-> [k \in {"ca.crt", "ca.key", "tls.crt", "tls.key"} |->
                           Val("ext", 9, 71, 71)],
              Type |-> "kubernetes.io/tls"]
        ELSE [UID |-> 0, SecretName |-> "", AppUID |-> "",
              Data |-> [k \in {"token"} |-> Val("ext", 4, 72, 0)],
              Type |-> "Opaque"]]

\* the identity labelsForSecret stamps on every storage object
AppUID == "app-uid"

(***************************************************************************)
(* typed.Sorted: the map's entries in ascending key order.                  *)
(***************************************************************************)
MinName(S) == CHOOSE n \in S : \A m \in S \ {n} : StrLess(n, m)

RECURSIVE SortedNames(_)
SortedNames(S) ==
    IF S = {} THEN <<>>
    ELSE LET n == MinName(S) IN <<n>> \o SortedNames(S \ {n})

\* the subsequence of s whose elements satisfy Keep
RECURSIVE FilterSeq(_, _)
FilterSeq(s, keep) ==
    IF s = <<>> THEN <<>>
    ELSE IF Head(s) \in keep THEN <<Head(s)>> \o FilterSeq(Tail(s), keep)
    ELSE FilterSeq(Tail(s), keep)

\* a plausible slip: the generated descriptors are not moved to the end
secretsOrdered_unsplit(secs) == SortedNames(DOMAIN secs)

\* secretsOrdered: non-generated entries in key order, then the generated ones
secretsOrdered(secs) ==
    LET all == SortedNames(DOMAIN secs)
        gen == { n \in DOMAIN secs : secs[n].Type = "generated" }
    IN  FilterSeq(all, DOMAIN secs \ gen) \o FilterSeq(all, gen)

(***************************************************************************)
(* Secret objects (corev1.Secret).  UID is 0 until the store assigns one;   *)
(* SecretName and AppUID are the descriptor-name and owner labels of        *)
(* labelsForSecret ("" on an object that carries none).                     *)
(***************************************************************************)
Secret(uid, name, owner, data, type) ==
    [UID |-> uid, SecretName |-> name, AppUID |-> owner, Data |-> data, Type |-> type]

NilSecret == Secret(0, "", "", NoData, "")

\* a plausible slip: the descriptor-name label is left out
NewSecret_unnamed(name, data, type) == Secret(0, "", AppUID, data, type)

\* the object a generator builds before it is created
NewSecret(name, data, type) == Secret(0, name, AppUID, data, type)

\* a (secret, error) pair as the Go functions return it; err "nil" is success
Result(secret, err) == [secret |-> secret, err |-> err]

(***************************************************************************)
(* Errors.  NotFound and the store faults are API status errors; the rest   *)
(* are plain errors of the generators.                                      *)
(***************************************************************************)
StoreFaults == {"Forbidden", "Conflict"}

GeneratorErrors == {"ErrJobNotDone", "ErrJobNoOutput", "ErrParams", "ErrJSON", "ErrCert"}

\* a plausible slip: a predicate that no store error satisfies
IsNotFound_never(err) == err = "Gone"

\* apierrors.IsNotFound
IsNotFound(err) == err = "NotFound"

\* errors.As(err, &apiError) for apierrors.APIStatus
IsAPIStatus(err) == err \in StoreFaults \cup {"NotFound"}

(***************************************************************************)
(* getSecret: the label search and the choice of the smallest UID.          *)
(***************************************************************************)
\* klabels.SelectorFromSet(labelsForSecret(name, app)) applied to one object
MatchesLabels(obj, name) == obj.SecretName = name /\ obj.AppUID = AppUID

RECURSIVE SelectLabelled(_, _)
SelectLabelled(items, name) ==
    IF items = <<>> THEN <<>>
    ELSE IF MatchesLabels(Head(items), name)
         THEN <<Head(items)>> \o SelectLabelled(Tail(items), name)
         ELSE SelectLabelled(Tail(items), name)

\* insert obj into a sequence already sorted by UID
RECURSIVE InsertByUID(_, _)
InsertByUID(obj, sorted) ==
    IF sorted = <<>> THEN <<obj>>
    ELSE IF obj.UID < Head(sorted).UID THEN <<obj>> \o sorted
    ELSE <<Head(sorted)>> \o InsertByUID(obj, Tail(sorted))

\* sort.Slice(items, UID less)
RECURSIVE SortByUID(_)
SortByUID(items) ==
    IF items = <<>> THEN <<>>
    ELSE InsertByUID(Head(items), SortByUID(Tail(items)))

\* a plausible slip: the first listed object is taken, unsorted
getSecret_unsorted(items, name) ==
    LET found == SelectLabelled(items, name)
    IN  IF found = <<>> THEN Result(NilSecret, "NotFound")
        ELSE Result(found[1], "nil")

\* a plausible slip: the selector asks for a label no stored object carries
getSecret_noMatch(items, name) == Result(NilSecret, "NotFound")

\* getSecret after a List that answered with items
getSecret(items, name) ==
    LET found == SelectLabelled(items, name)
    IN  IF found = <<>> THEN Result(NilSecret, "NotFound")
        ELSE Result(SortByUID(found)[1], "nil")

(***************************************************************************)
(* Jobs and pods as getJobOutput reads them.  A container status carries    *)
(* Terminated (nil or not), ExitCode and Message; a message is the number   *)
(* of a payload, 0 for the empty message.                                   *)
(***************************************************************************)
Status(terminated, exitCode, message) ==
    [Terminated |-> terminated, ExitCode |-> exitCode, Message |-> message]

Job(exists, succeeded, pods) ==
    [exists |-> exists, Succeeded |-> succeeded, pods |-> pods]

NoJob == Job(FALSE, 0, <<>>)

JobStates ==
    { NoJob,
      Job(TRUE, 0, <<>>),
      Job(TRUE, 1, <<>>),
      Job(TRUE, 1, << <<Status(FALSE, 0, 1), Status(TRUE, 1, 2), Status(TRUE, 0, 0)>> >>),
      Job(TRUE, 1, << <<Status(TRUE, 1, 2)>>, <<Status(TRUE, 0, 0), Status(TRUE, 0, 1), Status(TRUE, 0, 2)>> >>),
      Job(TRUE, 1, << <<Status(FALSE, 0, 3), Status(TRUE, 0, 2)>>, <<Status(TRUE, 0, 1)>> >>),
      Job(TRUE, 1, << <<Status(TRUE, 0, 3)>> >>) }

\* the bytes of payload n
Payload(n) == Val("payload", 4 + n, n, 0)

\* json.Unmarshal into secretData: payload 1 is plain text and does not parse,
\* payload 2 carries a type and one field, payload 3 a field and no type
Unmarshal(n) ==
    CASE n = 2 -> [err |-> "nil", Type |-> "custom",
                   Data |-> [k \in {"key"} |-> Val("json", 3, 21, 0)]]
      [] n = 3 -> [err |-> "nil", Type |-> "",
                   Data |-> [k \in {"content"} |-> Val("json", 3, 31, 0)]]
      [] OTHER -> [err |-> "ErrJSON", Type |-> "", Data |-> NoData]

\* the statuses of all pods in pod order, then container order
RECURSIVE Flatten(_)
Flatten(pods) ==
    IF pods = <<>> THEN <<>> ELSE Head(pods) \o Flatten(Tail(pods))

\* a plausible slip: the exit code is not looked at
RECURSIVE FirstOutput_anyExit(_)
FirstOutput_anyExit(statuses) ==
    IF statuses = <<>> THEN 0
    ELSE LET st == Head(statuses)
         IN  IF ~st.Terminated THEN FirstOutput_anyExit(Tail(statuses))
             ELSE IF st.Message > 0 THEN st.Message
             ELSE FirstOutput_anyExit(Tail(statuses))

\* the scan of getJobOutput: the first status terminated with exit code 0
\* and a non-empty message; 0 when there is none
RECURSIVE FirstOutput(_)
FirstOutput(statuses) ==
    IF statuses = <<>> THEN 0
    ELSE LET st == Head(statuses)
         IN  IF ~st.Terminated \/ st.ExitCode # 0 THEN FirstOutput(Tail(statuses))
             ELSE IF st.Message > 0 THEN st.Message
             ELSE FirstOutput(Tail(statuses))

\* a plausible slip: a job that has not succeeded is reported as absent
jobDone_absent(job) == IF job.Succeeded # 1 THEN "NotFound" ELSE "nil"

\* getJobOutput after the job was fetched, before the pods are listed
jobDone(job) == IF job.Succeeded # 1 THEN "ErrJobNotDone" ELSE "nil"

\* a plausible slip: no pod is taken for a job without output
getJobOutput_noPods(pods) ==
    LET out == FirstOutput(Flatten(pods))
    IN  IF out = 0 THEN [data |-> 0, err |-> "ErrJobNoOutput"]
        ELSE [data |-> out, err |-> "nil"]

\* getJobOutput after the pod list answered: [data, err]
getJobOutput(pods) ==
    IF Len(pods) = 0 THEN [data |-> 0, err |-> "NotFound"]
    ELSE LET out == FirstOutput(Flatten(pods))
         IN  IF out = 0 THEN [data |-> 0, err |-> "ErrJobNoOutput"]
             ELSE [data |-> out, err |-> "nil"]

\* f with key k set to v (a Go map assignment)
Put(f, k, v) == [x \in DOMAIN f \cup {k} |-> IF x = k THEN v ELSE f[x]]

\* f with every entry of g assigned
Merge(f, g) == [x \in DOMAIN f \cup DOMAIN g |-> IF x \in DOMAIN g THEN g[x] ELSE f[x]]

\* a plausible slip: the parsed type is assigned even when it is empty
generatedSecret_alwaysType(name, ref, output) ==
    LET secret == NewSecret(name, seedData(ref.Data, {}), "Opaque")
        format == ref.Params.format
    IN  IF format = "text"
        THEN Result([secret EXCEPT !.Data = Put(@, "content", Payload(output))], "nil")
        ELSE IF format = "json"
        THEN LET parsed == Unmarshal(output)
             IN  IF parsed.err # "nil" THEN Result(NilSecret, parsed.err)
                 ELSE Result([secret EXCEPT
                                 !.Data = Merge(@, parsed.Data),
                                 !.Type = parsed.Type], "nil")
        ELSE Result(secret, "nil")

\* a plausible slip: every seeded field is copied into the data
generatedSecret_seeded(name, ref, output) ==
    LET secret == NewSecret(name, seedData(ref.Data, DOMAIN ref.Data), "Opaque")
        format == ref.Params.format
    IN  IF format = "text"
        THEN Result([secret EXCEPT !.Data = Put(@, "content", Payload(output))], "nil")
        ELSE IF format = "json"
        THEN LET parsed == Unmarshal(output)
             IN  IF parsed.err # "nil" THEN Result(NilSecret, parsed.err)
                 ELSE Result([secret EXCEPT
                                 !.Data = Merge(@, parsed.Data),
                                 !.Type = IF parsed.Type # "" THEN parsed.Type ELSE @], "nil")
        ELSE Result(secret, "nil")

\* generatedSecret once the payload is in hand
generatedSecret(name, ref, output) ==
    LET secret == NewSecret(name, seedData(ref.Data, {}), "Opaque")
        format == ref.Params.format
    IN  IF format = "text"
        THEN Result([secret EXCEPT !.Data = Put(@, "content", Payload(output))], "nil")
        ELSE IF format = "json"
        THEN LET parsed == Unmarshal(output)
             IN  IF parsed.err # "nil" THEN Result(NilSecret, parsed.err)
                 ELSE Result([secret EXCEPT
                                 !.Data = Merge(@, parsed.Data),
                                 !.Type = IF parsed.Type # "" THEN parsed.Type ELSE @], "nil")
        ELSE Result(secret, "nil")

(***************************************************************************)
(* The crypto collaborator (pkg/certs) and the token source, by what the    *)
(* generators rely on: fresh material carries the number r it was drawn     *)
(* with, a certificate names the CA certificate that signed it, and         *)
(* signing fails on CA material that is empty.                              *)
(***************************************************************************)
GenerateCA(r) == [cert |-> Val("cacert", 9, r, r), key |-> Val("cakey", 9, r, 0)]

GenerateCert(caPEM, caKeyPEM, r) ==
    IF caPEM.len = 0 \/ caKeyPEM.len = 0
    THEN [err |-> "ErrCert", cert |-> Empty, key |-> Empty]
    ELSE [err |-> "nil", cert |-> Val("cert", 9, r, caPEM.id), key |-> Val("key", 9, r, 0)]

GeneratePrivateKey(r) == Val("key", 9, r, 0)

\* a plausible slip: every token is cut to eight characters
Token_eight(i, r) == Val("token", 8, r, 0)

\* randomtoken.Generate() cut to v[:(i+1)*8]
Token(i, r) == Val("token", (i + 1) * 8, r, 0)

(***************************************************************************)
(* The generators that build a secret from the descriptor alone.            *)
(***************************************************************************)
generateDocker(name, ref) ==
    LET data == seedData(ref.Data, {".dockerconfigjson"})
    IN  NewSecret(name,
                  IF data[".dockerconfigjson"].len = 0
                  THEN Put(data, ".dockerconfigjson", Val("lit", 2, 0, 0))
                  ELSE data,
                  "kubernetes.io/dockerconfigjson")

\* the keys in loop order: i = 0 is the username, i = 1 the password
generateBasic(name, ref, r) ==
    LET data == seedData(ref.Data, {"username", "password"})
        user == IF data["username"].len = 0 THEN Token(0, r + 1) ELSE data["username"]
        pass1 == IF data["password"].len = 0 THEN Token(1, r + 2) ELSE data["password"]
    IN  NewSecret(name, [k \in {"username", "password"} |->
                            IF k = "username" THEN user ELSE pass1],
                  "kubernetes.io/basic-auth")

\* generateSSH: [secret, err]
generateSSH(name, ref, r) ==
    LET data == seedData(ref.Data, {"ssh-privatekey"})
        secret == NewSecret(name, data, "kubernetes.io/ssh-auth")
    IN  IF data["ssh-privatekey"].len > 0 THEN Result(secret, "nil")
        ELSE IF ~ref.Params.ok THEN Result(NilSecret, "ErrParams")
        ELSE Result([secret EXCEPT !.Data = Put(@, "ssh-privatekey", GeneratePrivateKey(r + 1))],
                    "nil")

\* generateTLS up to the seeds: the secret of lines 159-167
tlsSeeded(name, ref) ==
    NewSecret(name, seedData(ref.Data, {"tls.crt", "tls.key", "ca.crt", "ca.key"}),
              "kubernetes.io/tls")

\* a plausible slip: the CA material is stored on the leaf whatever its origin
tlsSign_keepCA(secret, ref, caPEM, caKeyPEM, r) ==
    LET made == GenerateCert(caPEM, caKeyPEM, r)
    IN  IF made.err # "nil" THEN Result(NilSecret, made.err)
        ELSE Result([secret EXCEPT !.Data =
                        Put(Put(Put(Put(@, "tls.crt", made.cert), "tls.key", made.key),
                                "ca.crt", caPEM), "ca.key", caKeyPEM)], "nil")

\* generateTLS from GenerateCert on (lines 198-210), given the CA material
tlsSign(secret, ref, caPEM, caKeyPEM, r) ==
    LET made == GenerateCert(caPEM, caKeyPEM, r)
    IN  IF made.err # "nil" THEN Result(NilSecret, made.err)
        ELSE LET data == Put(Put(secret.Data, "tls.crt", made.cert), "tls.key", made.key)
             IN  Result([secret EXCEPT !.Data =
                            IF ref.Params.caSecret = ""
                            THEN Put(Put(data, "ca.crt", caPEM), "ca.key", caKeyPEM)
                            ELSE data], "nil")

(***************************************************************************)
(* The condition message of the deferred function of CreateSecrets.         *)
(***************************************************************************)
\* err.Error() of the generator errors
ErrMsg(err) ==
    CASE err = "ErrJobNotDone"  -> "job not complete"
      [] err = "ErrJobNoOutput" -> "job has no output"
      [] err = "ErrParams"      -> "bad params"
      [] err = "ErrJSON"        -> "invalid character"
      [] err = "ErrCert"        -> "failed to sign"
      [] OTHER                  -> err

MsgBytes(err) ==
    CASE err = "ErrJobNotDone"  -> <<106, 111, 98, 32, 110, 111, 116, 32, 99, 111, 109, 112, 108, 101, 116, 101>>
      [] err = "ErrJobNoOutput" -> <<106, 111, 98, 32, 104, 97, 115, 32, 110, 111, 32, 111, 117, 116, 112, 117, 116>>
      [] err = "ErrParams"      -> <<98, 97, 100, 32, 112, 97, 114, 97, 109, 115>>
      [] err = "ErrJSON"        -> <<105, 110, 118, 97, 108, 105, 100, 32, 99, 104, 97, 114, 97, 99, 116, 101, 114>>
      [] err = "ErrCert"        -> <<102, 97, 105, 108, 101, 100, 32, 116, 111, 32, 115, 105, 103, 110>>
      [] OTHER                  -> <<>>

\* one entry of the errored list: fmt.Sprintf("%s: %v", secretName, err)
Errored(name, err) == [name |-> name, err |-> err]

ErroredText(e) == e.name \o ": " \o ErrMsg(e.err)

ErroredBytes(e) == Bytes(e.name) \o <<58, 32>> \o MsgBytes(e.err)

\* sort.Strings on the missing list
RECURSIVE InsertName(_, _)
InsertName(n, sorted) ==
    IF sorted = <<>> THEN <<n>>
    ELSE IF StrLess(n, Head(sorted)) THEN <<n>> \o sorted
    ELSE <<Head(sorted)>> \o InsertName(n, Tail(sorted))

RECURSIVE SortStrings(_)
SortStrings(list) ==
    IF list = <<>> THEN <<>> ELSE InsertName(Head(list), SortStrings(Tail(list)))

\* sort.Strings on the errored list: the formatted entries are compared
RECURSIVE InsertErrored(_, _)
InsertErrored(e, sorted) ==
    IF sorted = <<>> THEN <<e>>
    ELSE IF BytesLess(ErroredBytes(e), ErroredBytes(Head(sorted))) THEN <<e>> \o sorted
    ELSE <<Head(sorted)>> \o InsertErrored(e, Tail(sorted))

RECURSIVE SortErrored(_)
SortErrored(list) ==
    IF list = <<>> THEN <<>> ELSE InsertErrored(Head(list), SortErrored(Tail(list)))

\* strings.Join(list, ", ")
RECURSIVE Join(_)
Join(list) ==
    IF list = <<>> THEN ""
    ELSE IF Len(list) = 1 THEN list[1]
    ELSE list[1] \o ", " \o Join(Tail(list))

ErroredTexts(list) == [i \in 1..Len(list) |-> ErroredText(list[i])]

\* a plausible slip: the space between the two groups is left out
Message_noSeparator(missing, errored) ==
    LET m == IF Len(missing) > 0
             THEN "missing: [" \o Join(SortStrings(missing)) \o "]"
             ELSE ""
        e == IF Len(errored) > 0
             THEN "errored: [" \o Join(ErroredTexts(SortErrored(errored))) \o "]"
             ELSE ""
    IN  m \o e

\* the text the deferred function builds; "" when both lists are empty
Message(missing, errored) ==
    LET m == IF Len(missing) > 0
             THEN "missing: [" \o Join(SortStrings(missing)) \o "]"
             ELSE ""
        e == IF Len(errored) > 0
             THEN (IF m # "" THEN " " ELSE "") \o
                  "errored: [" \o Join(ErroredTexts(SortErrored(errored))) \o "]"
             ELSE ""
    IN  m \o e

Cond(status, msg) == [status |-> status, msg |-> msg]

\* a plausible slip: the missing list alone decides the condition
deferred_missingOnly(err, missing, errored) ==
    IF err # "nil" THEN Cond("error", err)
    ELSE IF Len(missing) > 0 THEN Cond("error", Message(missing, errored))
    ELSE Cond("success", "")

\* a plausible slip: only a fatal error reaches the condition
deferred_fatalOnly(err, missing, errored) ==
    IF err # "nil" THEN Cond("error", err) ELSE Cond("none", "")

\* the deferred function (lines 372-400): the condition the pass ends with
deferred(err, missing, errored) ==
    IF err # "nil" THEN Cond("error", err)
    ELSE LET buf == Message(missing, errored)
         IN  IF buf # "" THEN Cond("error", buf) ELSE Cond("success", "")

(***************************************************************************)
(* State.                                                                   *)
(*   app      the AppInstance: Secrets (descriptor map) and Bindings        *)
(*   store    the labelled storage secrets, in the order List returns them  *)
(*   jobs     the batch job the generated descriptors name, with its pods   *)
(*   pass     per controller worker, the locals of its CreateSecrets call,  *)
(*            with the trace of its calls (log), the cache of its previous  *)
(*            pass (prev), the errored list of its previous pass            *)
(*            (prevErrored), and the store and the job as the pass found    *)
(*            them (store0, jobs0)                                          *)
(*   workers  the workers that reconcile this application                   *)
(*   created  how many objects the store has created (it assigns the UIDs)  *)
(*   rnd      how many random values the crypto and token sources gave out  *)
(*   faults   store faults still to be injected                             *)
(*   dev      the dev command (package dev): the position of its four loops *)
(*            and of the stdin reader goroutine, its channels, its context  *)
(***************************************************************************)
VARIABLES app, store, jobs, pass, workers, created, rnd, faults, dev

vars == <<app, store, jobs, pass, workers, created, rnd, faults, dev>>

Procs == {1, 2}

(***************************************************************************)
(* The dev command.  ctx is the context of the errgroup; ri, bl, rl, ll are *)
(* the positions of readInput, buildLoop, runLoop and logLoop; rg is the    *)
(* reader goroutine readInput started last, with the operations its         *)
(* channel readSomething has seen; orphans counts earlier reader goroutines *)
(* that closed their channel and have not run further; trigger, images and  *)
(* apps are the fill of the capacity-1 channels; changes is how often the   *)
(* watched files still change; logging is logLoop's flag of that name;      *)
(* panic is a panic of the process.                                         *)
(***************************************************************************)
DevNotStarted ==
    [ctx |-> "none", ri |-> "idle", rg |-> [pc |-> "none", ops |-> <<>>], orphans |-> 0,
     trigger |-> 0, bl |-> "idle", changes |-> 0, images |-> 0, imagesClosed |-> FALSE,
     rl |-> "idle", apps |-> 0, appsClosed |-> FALSE, ll |-> "idle", logging |-> FALSE,
     panic |-> FALSE]

\* the UIDs the store assigns, in order of creation
UIDStream == <<6, 4, 8, 2, 9, 1>>

\* re-entries of getOrCreateSecret the model follows before it stops
MaxDepth == 4

\* one entry of a pass's trace of calls
Ev(op, name, res) == [op |-> op, name |-> name, res |-> res]

NoCond == Cond("none", "")

IdlePass ==
    [pc |-> "idle", n |-> 0, stack |-> <<>>, ret |-> Result(NilSecret, "nil"),
     secrets |-> [k \in {} |-> NilSecret], missing |-> <<>>, errored |-> <<>>,
     order |-> <<>>, idx |-> 0, objects |-> <<>>, cond |-> NoCond, condCalls |-> 0,
     err |-> "nil", pending |-> NilSecret, log |-> <<>>,
     prev |-> [k \in {} |-> NilSecret], store0 |-> <<>>,
     prevErrored |-> <<>>, jobs0 |-> NoJob, settled |-> FALSE]

\* a plausible slip: the projection is labelled with labelsForSecret
Projection_storageLabels(name, secret) ==
    [Name |-> name, Namespace |-> "app-target-ns",
     Labels |-> {"app-name", "app-namespace", "managed", "app-uid", "secret-name"},
     Data |-> secret.Data, Type |-> secret.Type]

\* the object CreateSecrets hands to resp.Objects (lines 417-429)
Projection(name, secret) ==
    [Name |-> name, Namespace |-> "app-target-ns",
     Labels |-> {"app-name", "app-namespace", "managed"},
     Data |-> secret.Data, Type |-> secret.Type]

\* secretRef.Optional == nil || !*secretRef.Optional
Required(ref) == ref.Optional = "nil" \/ ref.Optional = "false"

\* the faults the store may answer the next call with
FaultChoices == IF faults > 0 THEN StoreFaults \cup {"nil"} ELSE {"nil"}

Top(r) == r.stack[Len(r.stack)]

Pop(stack) == SubSeq(stack, 1, Len(stack) - 1)

Logged(r, e) == [r EXCEPT !.log = Append(@, e)]

\* a return of (nil, err) or of a secret that is not cached here
Ret(r, res) == [r EXCEPT !.ret = res, !.pc = "ret"]

\* secrets[secretName] = secret; return secret, nil (lines 331-332, 340-341)
RetCached(r, name, secret) ==
    [r EXCEPT !.ret = Result(secret, "nil"), !.pc = "ret",
              !.secrets = Put(@, name, secret),
              !.log = Append(@, Ev("cache", name, ""))]

\* a generator that ends in req.Client.Create(secret)
ToCreate(r, secret) == [r EXCEPT !.pending = secret, !.pc = "create"]

\* a plausible slip: the binding is matched on the secret it points at
RECURSIVE FirstBinding_bySecret(_, _, _)
FirstBinding_bySecret(bindings, name, i) ==
    IF i > Len(bindings) THEN 0
    ELSE IF bindings[i].Secret = name THEN i
    ELSE FirstBinding_bySecret(bindings, name, i + 1)

\* the index of the first binding whose SecretRequest is name, 0 if none
RECURSIVE FirstBinding(_, _, _)
FirstBinding(bindings, name, i) ==
    IF i > Len(bindings) THEN 0
    ELSE IF bindings[i].SecretRequest = name THEN i
    ELSE FirstBinding(bindings, name, i + 1)

\* a plausible slip: the binding loop runs before the cache is consulted
getOrCreateSecret_bindingFirst(r, name) ==
    LET r1 == Logged([r EXCEPT !.stack = Append(@, name)], Ev("resolve", name, ""))
    IN  IF FirstBinding(app.Bindings, name, 1) > 0 THEN [r1 EXCEPT !.pc = "bindGet"]
        ELSE IF name \in DOMAIN r.secrets
        THEN Logged(Ret(r1, Result(r.secrets[name], "nil")), Ev("hit", name, ""))
        ELSE [r1 EXCEPT !.pc = "list"]

\* a plausible slip: the cache is never consulted
getOrCreateSecret_noCache(r, name) ==
    LET r1 == Logged([r EXCEPT !.stack = Append(@, name)], Ev("resolve", name, ""))
    IN  IF FirstBinding(app.Bindings, name, 1) > 0 THEN [r1 EXCEPT !.pc = "bindGet"]
        ELSE [r1 EXCEPT !.pc = "list"]

\* getOrCreateSecret up to its first store call (lines 320-336)
\* a plausible guard the code does not have: a name that is already being
\* resolved further up the call stack is answered as not found
getOrCreateSecret_cycleGuard(r, name) ==
    LET r1 == Logged([r EXCEPT !.stack = Append(@, name)], Ev("resolve", name, ""))
    IN  IF \E i \in 1..Len(r.stack) : r.stack[i] = name
        THEN Ret(r1, Result(NilSecret, "NotFound"))
        ELSE IF name \in DOMAIN r.secrets
        THEN Logged(Ret(r1, Result(r.secrets[name], "nil")), Ev("hit", name, ""))
        ELSE IF FirstBinding(app.Bindings, name, 1) > 0 THEN [r1 EXCEPT !.pc = "bindGet"]
        ELSE [r1 EXCEPT !.pc = "list"]

getOrCreateSecret(r, name) ==
    LET r1 == Logged([r EXCEPT !.stack = Append(@, name)], Ev("resolve", name, ""))
    IN  IF name \in DOMAIN r.secrets
        THEN Logged(Ret(r1, Result(r.secrets[name], "nil")), Ev("hit", name, ""))
        ELSE IF FirstBinding(app.Bindings, name, 1) > 0 THEN [r1 EXCEPT !.pc = "bindGet"]
        ELSE [r1 EXCEPT !.pc = "list"]

\* a plausible slip: a fresh CA is generated although caSecret names one
generateTLS_ownCA(r, name, ref, rn) ==
    LET secret == tlsSeeded(name, ref)
    IN  IF secret.Data["tls.crt"].len > 0 /\ secret.Data["tls.key"].len > 0
        THEN [r |-> ToCreate(r, secret), rnd |-> rn]
        ELSE IF ~ref.Params.ok
        THEN [r |-> Ret(r, Result(NilSecret, "ErrParams")), rnd |-> rn]
        ELSE LET ca == GenerateCA(rn + 1)
                 signed == tlsSign(secret, ref, ca.cert, ca.key, rn + 2)
             IN  [r |-> IF signed.err # "nil" THEN Ret(r, signed)
                        ELSE ToCreate(r, signed.secret),
                  rnd |-> rn + 2]

\* generateTLS up to the store call or the re-entry it ends in (lines 158-196);
\* the result is the worker's locals and the count of random values drawn
generateTLS(r, name, ref, rn) ==
    LET secret == tlsSeeded(name, ref)
    IN  IF secret.Data["tls.crt"].len > 0 /\ secret.Data["tls.key"].len > 0
        THEN [r |-> ToCreate(r, secret), rnd |-> rn]
        ELSE IF ~ref.Params.ok
        THEN [r |-> Ret(r, Result(NilSecret, "ErrParams")), rnd |-> rn]
        ELSE IF secret.Data["ca.crt"].len = 0 \/ secret.Data["ca.key"].len = 0
        THEN IF ref.Params.caSecret = ""
             THEN LET ca == GenerateCA(rn + 1)
                      signed == tlsSign(secret, ref, ca.cert, ca.key, rn + 2)
                  IN  [r |-> IF signed.err # "nil" THEN Ret(r, signed)
                             ELSE ToCreate(r, signed.secret),
                       rnd |-> rn + 2]
             ELSE [r |-> getOrCreateSecret(r, ref.Params.caSecret), rnd |-> rn]
        ELSE LET signed == tlsSign(secret, ref, secret.Data["ca.crt"],
                                   secret.Data["ca.key"], rn + 1)
             IN  [r |-> IF signed.err # "nil" THEN Ret(r, signed)
                        ELSE ToCreate(r, signed.secret),
                  rnd |-> rn + 1]

\* a plausible slip: a name without descriptor is a generator error
generateSecret_undefinedIsError(r, name, rn) ==
    IF name \notin DOMAIN app.Secrets
    THEN [r |-> Ret(r, Result(NilSecret, "ErrParams")), rnd |-> rn]
    ELSE LET ref == app.Secrets[name]
             g == Logged(r, Ev("generate", name, ref.Type))
         IN  CASE ref.Type = "docker" ->
                    [r |-> ToCreate(g, generateDocker(name, ref)), rnd |-> rn]
               [] ref.Type = "basic" ->
                    [r |-> ToCreate(g, generateBasic(name, ref, rn)), rnd |-> rn + 2]
               [] ref.Type = "tls" -> generateTLS(g, name, ref, rn)
               [] ref.Type = "ssh-auth" ->
                    LET made == generateSSH(name, ref, rn)
                    IN  [r |-> IF made.err # "nil" THEN Ret(g, made)
                               ELSE ToCreate(g, made.secret),
                         rnd |-> rn + 1]
               [] ref.Type = "generated" -> [r |-> [g EXCEPT !.pc = "jobGet"], rnd |-> rn]
               [] OTHER -> [r |-> Ret(r, Result(NilSecret, "NotFound")), rnd |-> rn]

\* a plausible slip: the default type is generated as an empty opaque secret
generateSecret_opaqueGenerated(r, name, rn) ==
    IF name \notin DOMAIN app.Secrets
    THEN [r |-> Ret(r, Result(NilSecret, "NotFound")), rnd |-> rn]
    ELSE LET ref == app.Secrets[name]
             g == Logged(r, Ev("generate", name, ref.Type))
         IN  CASE ref.Type = "docker" ->
                    [r |-> ToCreate(g, generateDocker(name, ref)), rnd |-> rn]
               [] ref.Type = "basic" ->
                    [r |-> ToCreate(g, generateBasic(name, ref, rn)), rnd |-> rn + 2]
               [] ref.Type = "tls" -> generateTLS(g, name, ref, rn)
               [] ref.Type = "ssh-auth" ->
                    LET made == generateSSH(name, ref, rn)
                    IN  [r |-> IF made.err # "nil" THEN Ret(g, made)
                               ELSE ToCreate(g, made.secret),
                         rnd |-> rn + 1]
               [] ref.Type = "generated" -> [r |-> [g EXCEPT !.pc = "jobGet"], rnd |-> rn]
               [] OTHER -> [r |-> ToCreate(g, NewSecret(name, NoData, "Opaque")), rnd |-> rn]

\* generateSecret after getSecret answered NotFound (lines 293-315)
generateSecret(r, name, rn) ==
    IF name \notin DOMAIN app.Secrets
    THEN [r |-> Ret(r, Result(NilSecret, "NotFound")), rnd |-> rn]
    ELSE LET ref == app.Secrets[name]
             g == Logged(r, Ev("generate", name, ref.Type))
         IN  CASE ref.Type = "docker" ->
                    [r |-> ToCreate(g, generateDocker(name, ref)), rnd |-> rn]
               [] ref.Type = "basic" ->
                    [r |-> ToCreate(g, generateBasic(name, ref, rn)), rnd |-> rn + 2]
               [] ref.Type = "tls" -> generateTLS(g, name, ref, rn)
               [] ref.Type = "ssh-auth" ->
                    LET made == generateSSH(name, ref, rn)
                    IN  [r |-> IF made.err # "nil" THEN Ret(g, made)
                               ELSE ToCreate(g, made.secret),
                         rnd |-> rn + 1]
               [] ref.Type = "generated" -> [r |-> [g EXCEPT !.pc = "jobGet"], rnd |-> rn]
               [] OTHER -> [r |-> Ret(r, Result(NilSecret, "NotFound")), rnd |-> rn]

(***************************************************************************)
(* The body of the main loop of CreateSecrets after getOrCreateSecret has   *)
(* returned res for the descriptor name (lines 405-430), and the end of the *)
(* pass.                                                                    *)
(***************************************************************************)
\* the pass is over: the deferred function sets the condition
Finished(r, err) ==
    [r EXCEPT !.pc = "done", !.err = err,
              !.missing = IF err = "nil" THEN SortStrings(@) ELSE @,
              !.errored = IF err = "nil" THEN SortErrored(@) ELSE @,
              !.cond = deferred(err, r.missing, r.errored),
              !.condCalls = @ + 1]

\* a plausible slip: a fatal store fault is recorded like a generator error
classify_noAbort(r, name, ref, res) ==
    LET next == [r EXCEPT !.idx = @ + 1, !.pc = "loop"]
    IN  IF IsNotFound(res.err)
        THEN Logged(IF Required(ref) THEN [next EXCEPT !.missing = Append(@, name)] ELSE next,
                    Ev("outcome", name, IF Required(ref) THEN "missing" ELSE "skipped"))
        ELSE IF res.err # "nil"
        THEN Logged([next EXCEPT !.errored = Append(@, Errored(name, res.err))],
                    Ev("outcome", name, "errored"))
        ELSE Logged([next EXCEPT !.objects = Append(@, Projection(name, res.secret))],
                    Ev("outcome", name, "resolved"))

\* a plausible slip: the Optional test is inverted
classify_optionalInverted(r, name, ref, res) ==
    LET next == [r EXCEPT !.idx = @ + 1, !.pc = "loop"]
    IN  IF IsNotFound(res.err)
        THEN Logged(IF ~Required(ref) THEN [next EXCEPT !.missing = Append(@, name)] ELSE next,
                    Ev("outcome", name, IF Required(ref) THEN "missing" ELSE "skipped"))
        ELSE IF IsAPIStatus(res.err)
        THEN Finished(Logged([r EXCEPT !.cond = Cond("error", res.err), !.condCalls = @ + 1],
                             Ev("outcome", name, "fatal")), res.err)
        ELSE IF res.err # "nil"
        THEN Logged([next EXCEPT !.errored = Append(@, Errored(name, res.err))],
                    Ev("outcome", name, "errored"))
        ELSE Logged([next EXCEPT !.objects = Append(@, Projection(name, res.secret))],
                    Ev("outcome", name, "resolved"))

\* a plausible slip: a generator error ends the loop
classify_stopOnError(r, name, ref, res) ==
    LET next == [r EXCEPT !.idx = @ + 1, !.pc = "loop"]
    IN  IF IsNotFound(res.err)
        THEN Logged(IF Required(ref) THEN [next EXCEPT !.missing = Append(@, name)] ELSE next,
                    Ev("outcome", name, IF Required(ref) THEN "missing" ELSE "skipped"))
        ELSE IF IsAPIStatus(res.err)
        THEN Finished(Logged([r EXCEPT !.cond = Cond("error", res.err), !.condCalls = @ + 1],
                             Ev("outcome", name, "fatal")), res.err)
        ELSE IF res.err # "nil"
        THEN Logged([next EXCEPT !.errored = Append(@, Errored(name, res.err)),
                                 !.idx = Len(r.order) + 1],
                    Ev("outcome", name, "errored"))
        ELSE Logged([next EXCEPT !.objects = Append(@, Projection(name, res.secret))],
                    Ev("outcome", name, "resolved"))

\* a plausible slip: the errored branch does not leave the loop body
classify_noContinue(r, name, ref, res) ==
    LET next == [r EXCEPT !.idx = @ + 1, !.pc = "loop"]
    IN  IF IsNotFound(res.err)
        THEN Logged(IF Required(ref) THEN [next EXCEPT !.missing = Append(@, name)] ELSE next,
                    Ev("outcome", name, IF Required(ref) THEN "missing" ELSE "skipped"))
        ELSE IF IsAPIStatus(res.err)
        THEN Finished(Logged([r EXCEPT !.cond = Cond("error", res.err), !.condCalls = @ + 1],
                             Ev("outcome", name, "fatal")), res.err)
        ELSE IF res.err # "nil"
        THEN Logged([next EXCEPT !.errored = Append(@, Errored(name, res.err)),
                                 !.objects = Append(@, Projection(name, res.secret))],
                    Ev("outcome", name, "errored"))
        ELSE Logged([next EXCEPT !.objects = Append(@, Projection(name, res.secret))],
                    Ev("outcome", name, "resolved"))

\* the loop body after getOrCreateSecret returned (lines 405-429)
classify(r, name, ref, res) ==
    LET next == [r EXCEPT !.idx = @ + 1, !.pc = "loop"]
    IN  IF IsNotFound(res.err)
        THEN Logged(IF Required(ref) THEN [next EXCEPT !.missing = Append(@, name)] ELSE next,
                    Ev("outcome", name, IF Required(ref) THEN "missing" ELSE "skipped"))
        ELSE IF IsAPIStatus(res.err)
        THEN Finished(Logged([r EXCEPT !.cond = Cond("error", res.err), !.condCalls = @ + 1],
                             Ev("outcome", name, "fatal")), res.err)
        ELSE IF res.err # "nil"
        THEN Logged([next EXCEPT !.errored = Append(@, Errored(name, res.err))],
                    Ev("outcome", name, "errored"))
        ELSE Logged([next EXCEPT !.objects = Append(@, Projection(name, res.secret))],
                    Ev("outcome", name, "resolved"))

(***************************************************************************)
(* Actions.  p is the worker that takes the step.                           *)
(***************************************************************************)
\* CreateSecrets is invoked: fresh locals, the order is computed once
\* worker p starts a call after every worker has finished one, and no call
\* that started earlier than that is still running
Settled(p) ==
    \A q \in workers :
        /\ pass[q].n >= 1
        /\ q # p => (pass[q].pc = "done" \/ pass[q].settled)
        /\ q = p => pass[q].pc = "done"

StartPass(p) ==
    /\ p \in workers
    /\ pass[p].pc \in {"idle", "done"}
    /\ pass[p].n < MaxPasses
    /\ pass' = [pass EXCEPT ![p] =
                  [IdlePass EXCEPT !.pc = "loop", !.n = pass[p].n + 1,
                                   !.order = secretsOrdered(app.Secrets), !.idx = 1,
                                   !.prev = pass[p].secrets, !.store0 = store,
                                   !.prevErrored = pass[p].errored, !.jobs0 = jobs,
                                   !.settled = Settled(p)]]
    /\ UNCHANGED <<dev, app, store, jobs, workers, created, rnd, faults>>

\* one turn of the range loop: the next descriptor, or the end of the pass
Loop(p) ==
    /\ pass[p].pc = "loop"
    /\ pass' = [pass EXCEPT ![p] =
                  IF pass[p].idx > Len(pass[p].order)
                  THEN Finished(pass[p], "nil")
                  ELSE LET name == pass[p].order[pass[p].idx]
                       IN  getOrCreateSecret(Logged(pass[p], Ev("visit", name, "")), name)]
    /\ UNCHANGED <<dev, app, store, jobs, workers, created, rnd, faults>>

\* req.Client.Get of the bound secret (lines 326-332)
BindGet(p) ==
    /\ pass[p].pc = "bindGet"
    /\ \E f \in FaultChoices :
         LET r == pass[p]
             name == Top(r)
             target == app.Bindings[FirstBinding(app.Bindings, name, 1)].Secret
             res == IF f # "nil" THEN f
                    ELSE IF target \in DOMAIN Externals THEN "nil" ELSE "NotFound"
             r1 == Logged(r, Ev("get", name, res))
         IN  /\ pass' = [pass EXCEPT ![p] =
                           IF res = "nil" THEN RetCached(r1, name, Externals[target])
                           ELSE Ret(r1, Result(NilSecret, res))]
             /\ faults' = IF f # "nil" THEN faults - 1 ELSE faults
    /\ UNCHANGED <<dev, app, store, jobs, workers, created, rnd>>

\* the List of getSecret, and what generateSecret does with its answer
List(p) ==
    /\ pass[p].pc = "list"
    /\ \E f \in FaultChoices :
         LET r == pass[p]
             name == Top(r)
             got == IF f # "nil" THEN Result(NilSecret, f) ELSE getSecret(store, name)
             r1 == Logged(r, Ev("list", name, got.err))
             gen == generateSecret(r1, name, rnd)
         IN  /\ IF got.err = "nil"
                THEN pass' = [pass EXCEPT ![p] = RetCached(r1, name, got.secret)] /\ rnd' = rnd
                ELSE IF IsNotFound(got.err)
                THEN /\ Len(gen.r.stack) <= MaxDepth
                     /\ pass' = [pass EXCEPT ![p] = gen.r]
                     /\ rnd' = gen.rnd
                ELSE pass' = [pass EXCEPT ![p] = Ret(r1, got)] /\ rnd' = rnd
             /\ faults' = IF f # "nil" THEN faults - 1 ELSE faults
    /\ UNCHANGED <<dev, app, store, jobs, workers, created>>

\* client.Get of the job in getJobOutput (lines 41-51)
JobGet(p) ==
    /\ pass[p].pc = "jobGet"
    /\ \E f \in FaultChoices :
         LET r == pass[p]
             name == Top(r)
             err == IF f # "nil" THEN f
                    ELSE IF ~jobs.exists THEN "NotFound"
                    ELSE jobDone(jobs)
             r1 == Logged(r, Ev("job", name, err))
         IN  /\ pass' = [pass EXCEPT ![p] =
                           IF err = "nil" THEN [r1 EXCEPT !.pc = "podList"]
                           ELSE Ret(r1, Result(NilSecret, err))]
             /\ faults' = IF f # "nil" THEN faults - 1 ELSE faults
    /\ UNCHANGED <<dev, app, store, jobs, workers, created, rnd>>

\* client.List of the pods, the scan, and generatedSecret (lines 58-84, 93-120)
PodList(p) ==
    /\ pass[p].pc = "podList"
    /\ \E f \in FaultChoices :
         LET r == pass[p]
             name == Top(r)
             out == IF f # "nil" THEN [data |-> 0, err |-> f] ELSE getJobOutput(jobs.pods)
             r1 == Logged(r, Ev("pods", name, out.err))
             made == generatedSecret(name, app.Secrets[name], out.data)
         IN  /\ pass' = [pass EXCEPT ![p] =
                           IF out.err # "nil" THEN Ret(r1, Result(NilSecret, out.err))
                           ELSE IF made.err # "nil" THEN Ret(r1, made)
                           ELSE RetCached(r1, name, made.secret)]
             /\ faults' = IF f # "nil" THEN faults - 1 ELSE faults
    /\ UNCHANGED <<dev, app, store, jobs, workers, created, rnd>>

\* req.Client.Create(secret): the store assigns the UID and keeps the object
Create(p) ==
    /\ pass[p].pc = "create"
    /\ created < Len(UIDStream)
    /\ \E f \in FaultChoices :
         LET r == pass[p]
             name == Top(r)
             r1 == Logged(r, Ev("create", name, f))
             obj == [r.pending EXCEPT !.UID = UIDStream[created + 1]]
         IN  /\ pass' = [pass EXCEPT ![p] =
                           IF f # "nil" THEN Ret(r1, Result(NilSecret, f))
                           ELSE RetCached([r1 EXCEPT !.pending = NilSecret], name, obj)]
             /\ store' = IF f # "nil" THEN store ELSE Append(store, obj)
             /\ created' = IF f # "nil" THEN created ELSE created + 1
             /\ faults' = IF f # "nil" THEN faults - 1 ELSE faults
    /\ UNCHANGED <<dev, app, jobs, workers, rnd>>

\* getOrCreateSecret returns: to the main loop, or into the generateTLS that
\* asked for its CA (lines 191-210)
Return(p) ==
    /\ pass[p].pc = "ret"
    /\ LET r == pass[p]
           name == Top(r)
           r1 == Logged([r EXCEPT !.stack = Pop(@)], Ev("return", name, r.ret.err))
       IN  IF r1.stack = <<>>
           THEN /\ pass' = [pass EXCEPT ![p] = classify(r1, name, app.Secrets[name], r.ret)]
                /\ rnd' = rnd
           ELSE LET leaf == Top(r1)
                    ref == app.Secrets[leaf]
                    signed == tlsSign(tlsSeeded(leaf, ref), ref,
                                      At(r.ret.secret.Data, "ca.crt"),
                                      At(r.ret.secret.Data, "ca.key"), rnd + 1)
                IN  IF r.ret.err # "nil"
                    THEN pass' = [pass EXCEPT ![p] = Ret(r1, Result(NilSecret, r.ret.err))]
                         /\ rnd' = rnd
                    ELSE /\ pass' = [pass EXCEPT ![p] =
                                       IF signed.err # "nil" THEN Ret(r1, signed)
                                       ELSE ToCreate(r1, signed.secret)]
                         /\ rnd' = rnd + 1
    /\ UNCHANGED <<dev, app, store, jobs, workers, created, faults>>

(***************************************************************************)
(* Initial states: an application, what the store and the cluster hold      *)
(* before the first pass.                                                   *)
(***************************************************************************)
\* the descriptors combined freely in two-descriptor applications
CoreDescs ==
    { Desc("basic", "false", SeededUser, "", "", "", TRUE),
      Desc("", "nil", NoData, "", "", "", TRUE),
      Desc("", "true", NoData, "", "", "", TRUE),
      Desc("tls", "nil", NoData, "", "", "", TRUE),
      Desc("tls", "nil", NoData, "", "", "", FALSE),
      Desc("tls", "nil", NoData, "a", "", "", TRUE),
      Desc("tls", "nil", NoData, "b", "", "", TRUE),
      Desc("tls", "true", NoData, "x", "", "", TRUE),
      Desc("generated", "nil", NoData, "", TheJob, "text", TRUE),
      Desc("generated", "true", SeededContent, "", TheJob, "json", TRUE) }

\* two leaves and the descriptor both name as their CA
SharedCADescs ==
    { Desc("tls", "nil", NoData, "", "", "", TRUE),
      Desc("tls", "nil", NoData, "", "", "", FALSE),
      Desc("basic", "nil", NoData, "", "", "", TRUE),
      Desc("generated", "nil", NoData, "", TheJob, "json", TRUE) }

Function1(n1, d1) == [n \in {n1} |-> d1]

Function2(n1, d1, n2, d2) == [n \in {n1, n2} |-> IF n = n1 THEN d1 ELSE d2]

Function3(n1, d1, n2, d2, n3, d3) ==
    [n \in {n1, n2, n3} |-> IF n = n1 THEN d1 ELSE IF n = n2 THEN d2 ELSE d3]

SecretMaps ==
    { Function1(n, d) : n \in {"a", "b"}, d \in Descriptors }
    \cup { Function2("a", d1, "b", d2) : d1 \in CoreDescs, d2 \in CoreDescs }
    \cup { Function3("a", Desc("tls", "nil", NoData, "b", "", "", TRUE),
                     "a-b", Desc("tls", opt, NoData, "b", "", "", TRUE),
                     "b", ca) : opt \in {"nil", "true"}, ca \in SharedCADescs }
    \cup { Function2("a", Desc("tls", "nil", HalfSeededCA, ca, "", "", TRUE),
                     "b", Desc("tls", "nil", NoData, "", "", "", TRUE)) :
             ca \in {"", "b"} }
    \cup { Function2("a", Desc("generated", "nil", NoData, "", TheJob, format, TRUE),
                     "b", Desc("generated", "nil", seeds, "", TheJob, format, TRUE)) :
             format \in {"text", "json", ""}, seeds \in {SeededContent, SeededUser} }
    \cup { Function3("a", Desc("generated", "nil", NoData, "", TheJob, "text", TRUE),
                     "a-b", d,
                     "b", Desc("", opt, NoData, "", "", "", TRUE)) :
             opt \in {"nil", "true"},
             d \in { Desc("tls", "nil", NoData, "a", "", "", TRUE),
                     Desc("tls", "nil", NoData, "", "", "", FALSE),
                     Desc("docker", "nil", NoData, "", "", "", TRUE) } }

StoredData(uid) == [k \in {"ca.crt", "ca.key", "tls.crt", "tls.key"} |-> Val("stored", 9, uid, uid)]

\* what the store holds before the first pass, in the order it lists it
Stores ==
    { <<>>,
      <<Secret(5, "b", AppUID, StoredData(5), "kubernetes.io/tls")>>,
      <<Secret(7, "a", AppUID, StoredData(7), "kubernetes.io/tls"),
        Secret(3, "a", AppUID, StoredData(3), "Opaque")>>,
      <<Secret(3, "a", "other-uid", StoredData(3), "Opaque"),
        Secret(5, "x", AppUID, StoredData(5), "kubernetes.io/tls")>> }

HasGenerated(secs) == \E n \in DOMAIN secs : secs[n].Type = "generated"

Init ==
    /\ \E secs \in SecretMaps, bindings \in BindingLists :
          app = [Secrets |-> secs, Bindings |-> bindings]
    /\ store \in Stores
    /\ jobs \in JobStates
    /\ \/ jobs = NoJob
       \/ /\ HasGenerated(app.Secrets)
          /\ app.Bindings = <<>>
          /\ store = <<>>
    /\ pass = [p \in Procs |-> IdlePass]
    /\ workers = {1}
    /\ created = 0
    /\ rnd = 0
    /\ faults = MaxFaults
    /\ dev = DevNotStarted

Next ==
    \E p \in Procs :
        \/ StartPass(p)
        \/ Loop(p)
        \/ BindGet(p)
        \/ List(p)
        \/ JobGet(p)
        \/ PodList(p)
        \/ Create(p)
        \/ Return(p)

Spec == Init /\ [][Next]_vars

(***************************************************************************)
(* The cluster around the passes: the batch job of the generated            *)
(* descriptors runs to completion, at any moment, and its pods then carry   *)
(* their container statuses.                                                *)
(***************************************************************************)
(* A CreateSecrets call that has started keeps running: the worker that     *)
(* made it takes its next step whenever it has one.  Nothing obliges a      *)
(* worker to start another pass.                                            *)
(***************************************************************************)
Step(p) ==
    Loop(p) \/ BindGet(p) \/ List(p) \/ JobGet(p) \/ PodList(p) \/ Create(p) \/ Return(p)

\* the applications whose passes are followed to their end: leaves with and
\* without a CA descriptor, with a CA name that is no descriptor, on a
\* cycle, next to descriptors that need no other
LiveDescs ==
    { Desc("tls", "nil", NoData, "", "", "", TRUE),
      Desc("tls", "nil", NoData, "a", "", "", TRUE),
      Desc("tls", "nil", NoData, "b", "", "", TRUE),
      Desc("tls", "true", NoData, "x", "", "", TRUE),
      Desc("basic", "false", SeededUser, "", "", "", TRUE),
      Desc("generated", "nil", NoData, "", TheJob, "text", TRUE) }

LiveMaps ==
    { Function1("a", d) : d \in LiveDescs }
    \cup { Function2("a", d1, "b", d2) : d1 \in LiveDescs, d2 \in LiveDescs }

InitLive ==
    /\ \E secs \in LiveMaps, bindings \in {<<>>, <<Binding("a", "e1")>>} :
          app = [Secrets |-> secs, Bindings |-> bindings]
    /\ store \in {<<>>, <<Secret(5, "b", AppUID, StoredData(5), "kubernetes.io/tls")>>}
    /\ jobs \in {NoJob, Job(TRUE, 1, << <<Status(TRUE, 0, 3)>> >>)}
    /\ \/ jobs = NoJob
       \/ /\ HasGenerated(app.Secrets)
          /\ app.Bindings = <<>>
          /\ store = <<>>
    /\ pass = [p \in Procs |-> IdlePass]
    /\ workers = {1}
    /\ created = 0
    /\ rnd = 0
    /\ faults = MaxFaults
    /\ dev = DevNotStarted

SpecLive == InitLive /\ [][Next]_vars /\ \A p \in Procs : WF_vars(Step(p))

(***************************************************************************)
(* Two workers reconcile the same application: their calls of               *)
(* CreateSecrets interleave at every store, job and pod call.  The store    *)
(* answers every call.                                                      *)
(***************************************************************************)
ConcurrentApps ==
    { [Secrets |-> Function2("a", Desc("tls", "nil", NoData, "b", "", "", TRUE),
                             "b", Desc("tls", "nil", NoData, "", "", "", TRUE)),
       Bindings |-> <<>>],
      [Secrets |-> Function2("a", Desc("basic", "nil", NoData, "", "", "", TRUE),
                             "b", Desc("ssh-auth", "nil", NoData, "", "", "", TRUE)),
       Bindings |-> <<Binding("b", "e1")>>],
      [Secrets |-> Function2("a", Desc("docker", "nil", NoData, "", "", "", TRUE),
                             "b", Desc("generated", "nil", NoData, "", TheJob, "text", TRUE)),
       Bindings |-> <<>>] }

InitConcurrent ==
    /\ app \in ConcurrentApps
    /\ store = <<>>
    /\ jobs = IF HasGenerated(app.Secrets)
              THEN Job(TRUE, 1, << <<Status(TRUE, 0, 3)>> >>) ELSE NoJob
    /\ pass = [p \in Procs |-> IdlePass]
    /\ workers = Procs
    /\ created = 0
    /\ rnd = 0
    /\ faults = 0
    /\ dev = DevNotStarted

SpecConcurrent == InitConcurrent /\ [][Next]_vars

(***************************************************************************)
(* The randomness source fails.  randomtoken.Generate then returns the      *)
(* empty string with its error, and generateBasic cuts the string to        *)
(* v[:(i+1)*8] before it looks at the error (lines 227-231): the slice      *)
(* expression panics.  The panic unwinds CreateSecrets, whose deferred      *)
(* function runs with the named result err still nil and sets the           *)
(* condition from the lists gathered so far; the call never returns to its  *)
(* caller.                                                                  *)
(***************************************************************************)
\* generateBasic has a key to fill with a token
NeedsToken(ref) ==
    \E key \in {"username", "password"} :
        seedData(ref.Data, {"username", "password"})[key].len = 0

\* the call of r dies in a panic: only the deferred function still runs
Panicked(r) ==
    [r EXCEPT !.pc = "panic",
              !.missing = SortStrings(@),
              !.errored = SortErrored(@),
              !.cond = deferred("nil", r.missing, r.errored),
              !.condCalls = @ + 1]

\* the List of getSecret answers NotFound for a basic descriptor, and the
\* token source fails in generateBasic
RandomFails(p) ==
    /\ pass[p].pc = "list"
    /\ LET r == pass[p]
           name == Top(r)
           got == getSecret(store, name)
       IN  /\ name \in DOMAIN app.Secrets
           /\ app.Secrets[name].Type = "basic"
           /\ IsNotFound(got.err)
           /\ NeedsToken(app.Secrets[name])
           /\ pass' = [pass EXCEPT ![p] =
                         Panicked(Logged(Logged(Logged(r, Ev("list", name, got.err)),
                                                Ev("generate", name, "basic")),
                                         Ev("token", name, "ErrRandom")))]
    /\ UNCHANGED <<dev, app, store, jobs, workers, created, rnd, faults>>

NextEntropy ==
    \/ \E p \in Procs :
          \/ StartPass(p)
          \/ Loop(p)
          \/ BindGet(p)
          \/ List(p)
          \/ JobGet(p)
          \/ PodList(p)
          \/ Create(p)
          \/ Return(p)
    \/ \E p \in Procs : RandomFails(p)

SpecEntropy == Init /\ [][NextEntropy]_vars

(***************************************************************************)
JobCompletes ==
    /\ jobs.exists
    /\ jobs.Succeeded # 1
    /\ \E j \in JobStates : j.Succeeded = 1 /\ Len(j.pods) > 0 /\ jobs' = j
    /\ UNCHANGED <<dev, app, store, pass, workers, created, rnd, faults>>

NextJobs ==
    \/ \E p \in Procs :
          \/ StartPass(p)
          \/ Loop(p)
          \/ BindGet(p)
          \/ List(p)
          \/ JobGet(p)
          \/ PodList(p)
          \/ Create(p)
          \/ Return(p)
    \/ JobCompletes

SpecJobs == Init /\ [][NextJobs]_vars

(***************************************************************************)
(* The dev command (package dev): Dev starts readInput, buildLoop, runLoop  *)
(* and logLoop in an errgroup and waits for the four of them.  Every        *)
(* channel operation, every select and every call that may take time is a   *)
(* step of its own.  A select with several ready cases takes any of them.   *)
(***************************************************************************)
MaxChanges == 2
MaxOrphans == 1

\* the variables of the controller, which the dev command leaves alone
ctl == <<app, store, jobs, pass, workers, created, rnd, faults>>

\* Dev after its four eg.Go calls (lines 368-386)
DevStarted ==
    [DevNotStarted EXCEPT !.ctx = "live", !.ri = "spawn", !.bl = "wait",
                          !.rl = "select", !.ll = "select", !.changes = MaxChanges]

Alive == dev.ctx # "none" /\ ~dev.panic

\* the context passed to Dev is cancelled
Cancel ==
    /\ Alive /\ dev.ctx = "live"
    /\ dev' = [dev EXCEPT !.ctx = "cancelled"]
    /\ UNCHANGED ctl

\* readInput, top of the loop: a fresh channel and a fresh reader goroutine
\* (lines 332-341); a reader that has closed its channel and not run on is
\* left behind
RISpawn ==
    /\ Alive /\ dev.ri = "spawn"
    /\ dev.rg.pc = "closed" => dev.orphans < MaxOrphans
    /\ dev' = [dev EXCEPT !.ri = "select",
                          !.rg = [pc |-> "read", ops |-> <<>>],
                          !.orphans = IF dev.rg.pc = "closed" THEN @ + 1 ELSE @]
    /\ UNCHANGED ctl

\* case <-ctx.Done(): return nil (lines 343-344)
RIDone ==
    /\ Alive /\ dev.ri = "select" /\ dev.ctx = "cancelled"
    /\ dev' = [dev EXCEPT !.ri = "returned"]
    /\ UNCHANGED ctl

\* case _, ok := <-readSomething with ok: the reader's send is received
RIReceive ==
    /\ Alive /\ dev.ri = "select" /\ dev.rg.pc = "send"
    /\ dev' = [dev EXCEPT !.ri = "trigger",
                          !.rg = [pc |-> "done", ops |-> Append(dev.rg.ops, "send")]]
    /\ UNCHANGED ctl

\* the same case with !ok: the channel was closed; continue (lines 345-348)
RIReceiveClosed ==
    /\ Alive /\ dev.ri = "select" /\ dev.rg.pc = "closed"
    /\ dev' = [dev EXCEPT !.ri = "spawn"]
    /\ UNCHANGED ctl

\* trigger <- struct{}{} (line 349): blocks while the buffer is full
RITrigger ==
    /\ Alive /\ dev.ri = "trigger" /\ dev.trigger = 0
    /\ dev' = [dev EXCEPT !.trigger = 1, !.ri = "spawn"]
    /\ UNCHANGED ctl

\* the reader goroutine: os.Stdin.Read returns; on an error the channel is
\* closed (lines 335-339), and the goroutine goes on to the send of line 340
RGRead ==
    /\ Alive /\ dev.rg.pc = "read"
    /\ \E outcome \in {"ok", "deadline", "error"} :
          dev' = [dev EXCEPT !.rg = IF outcome = "ok"
                                    THEN [pc |-> "send", ops |-> <<>>]
                                    ELSE [pc |-> "closed", ops |-> <<"close">>]]
    /\ UNCHANGED ctl

\* readSomething <- struct{}{} (line 340) on the channel the goroutine has
\* just closed: a send on a closed channel panics
RGSendClosed ==
    /\ Alive /\ dev.rg.pc = "closed"
    /\ dev' = [dev EXCEPT !.rg = [pc |-> "panic", ops |-> Append(dev.rg.ops, "send")],
                          !.panic = TRUE]
    /\ UNCHANGED ctl

\* the same send in a reader goroutine left behind
OrphanSendClosed ==
    /\ Alive /\ dev.orphans > 0
    /\ dev' = [dev EXCEPT !.orphans = @ - 1, !.panic = TRUE]
    /\ UNCHANGED ctl

\* watcher.Wait: foundChanges is true (lines 119, 129-132)
BLChanged ==
    /\ Alive /\ dev.bl = "wait" /\ dev.changes > 0
    /\ dev' = [dev EXCEPT !.bl = "build", !.changes = @ - 1]
    /\ UNCHANGED ctl

\* watcher.Wait: case <-w.trigger (line 121)
BLTrigger ==
    /\ Alive /\ dev.bl = "wait" /\ dev.trigger = 1
    /\ dev' = [dev EXCEPT !.bl = "build", !.trigger = 0]
    /\ UNCHANGED ctl

\* watcher.Wait: case <-ctx.Done() (lines 122-123); buildLoop returns the
\* error (lines 147-149) and Dev's closure closes images (line 377)
BLDone ==
    /\ Alive /\ dev.bl = "wait" /\ dev.ctx = "cancelled"
    /\ dev' = [dev EXCEPT !.bl = "returned", !.imagesClosed = TRUE]
    /\ UNCHANGED ctl

\* build.Build (lines 152-156): on an error the loop continues
BLBuild ==
    /\ Alive /\ dev.bl = "build"
    /\ \E built \in BOOLEAN :
          dev' = [dev EXCEPT !.bl = IF built THEN "result" ELSE "wait"]
    /\ UNCHANGED ctl

\* result <- image.ID (line 158): blocks while the buffer is full
BLResult ==
    /\ Alive /\ dev.bl = "result" /\ dev.images = 0
    /\ dev' = [dev EXCEPT !.images = 1, !.bl = "wait"]
    /\ UNCHANGED ctl

\* runLoop: case image, open := <-images with an image (lines 278-284)
RLImage ==
    /\ Alive /\ dev.rl = "select" /\ dev.images = 1
    /\ dev' = [dev EXCEPT !.images = 0, !.rl = "run"]
    /\ UNCHANGED ctl

\* runLoop: images is closed and empty: return nil (lines 279-281); the
\* deferred stop is entered, apps is still open
RLClosed ==
    /\ Alive /\ dev.rl = "select" /\ dev.images = 0 /\ dev.imagesClosed
    /\ dev' = [dev EXCEPT !.rl = "stopping"]
    /\ UNCHANGED ctl

\* runLoop: case <-ctx.Done(): return ctx.Err() (lines 285-286); the deferred
\* stop is entered, apps is still open
RLDone ==
    /\ Alive /\ dev.rl = "select" /\ dev.ctx = "cancelled"
    /\ dev' = [dev EXCEPT !.rl = "stopping"]
    /\ UNCHANGED ctl

\* the deferred stop (lines 271-275, 241-257) ends: its store calls run under
\* a context of their own that expires after 15 seconds, and an error is only
\* logged; runLoop has returned and Dev's closure closes apps (line 381)
RLStop ==
    /\ Alive /\ dev.rl = "stopping"
    /\ dev' = [dev EXCEPT !.rl = "returned", !.appsClosed = TRUE]
    /\ UNCHANGED ctl

\* runOrUpdate up to its send: it fails before it, or reaches apps <- app
\* (lines 179-198, 259-268)
RLRun ==
    /\ Alive /\ dev.rl = "run"
    /\ \E sends \in BOOLEAN :
          dev' = [dev EXCEPT !.rl = IF sends THEN "apps" ELSE "select"]
    /\ UNCHANGED ctl

\* apps <- app (lines 196, 266): blocks while the buffer is full
RLApps ==
    /\ Alive /\ dev.rl = "apps" /\ dev.apps = 0
    /\ dev' = [dev EXCEPT !.apps = 1, !.rl = "select"]
    /\ UNCHANGED ctl

\* logLoop: case app, open := <-apps with an app (lines 316-326): the app is
\* kept as lastApp and its log is followed
LLApp ==
    /\ Alive /\ dev.ll = "select" /\ dev.apps = 1
    /\ dev' = [dev EXCEPT !.apps = 0, !.logging = TRUE]
    /\ UNCHANGED ctl

\* logLoop: apps is closed and empty: return nil (lines 317-319)
LLClosed ==
    /\ Alive /\ dev.ll = "select" /\ dev.apps = 0 /\ dev.appsClosed
    /\ dev' = [dev EXCEPT !.ll = "returned"]
    /\ UNCHANGED ctl

\* logLoop: case <-ctx.Done() (lines 308-309)
LLDone ==
    /\ Alive /\ dev.ll = "select" /\ dev.ctx = "cancelled"
    /\ dev' = [dev EXCEPT !.ll = "returned"]
    /\ UNCHANGED ctl

InitDev ==
    /\ app = [Secrets |-> Function1("a", Desc("", "nil", NoData, "", "", "", TRUE)),
              Bindings |-> <<>>]
    /\ store = <<>>
    /\ jobs = NoJob
    /\ pass = [p \in Procs |-> IdlePass]
    /\ workers = {}
    /\ created = 0
    /\ rnd = 0
    /\ faults = 0
    /\ dev = DevStarted

NextDev ==
    \/ Cancel
    \/ RISpawn
    \/ RIDone
    \/ RIReceive
    \/ RIReceiveClosed
    \/ RITrigger
    \/ RGRead
    \/ RGSendClosed
    \/ OrphanSendClosed
    \/ BLChanged
    \/ BLTrigger
    \/ BLDone
    \/ BLBuild
    \/ BLResult
    \/ RLImage
    \/ RLClosed
    \/ RLDone
    \/ RLStop
    \/ RLRun
    \/ RLApps
    \/ LLApp
    \/ LLClosed
    \/ LLDone

\* the steps each goroutine takes by itself once it is scheduled.  The return
\* of os.Stdin.Read (RGRead) and a change of a watched file (BLChanged) are
\* steps of the terminal and of the file system: the error of SetReadDeadline
\* is dropped (line 335), so the read may never return, and no file need ever
\* change.  They are in NextDev and in none of the steps below.
ReadInputStep == RISpawn \/ RIDone \/ RIReceive \/ RIReceiveClosed \/ RITrigger

ReaderStep == RGSendClosed \/ OrphanSendClosed

BuildLoopStep == BLTrigger \/ BLDone \/ BLBuild \/ BLResult

RunLoopStep == RLImage \/ RLClosed \/ RLDone \/ RLStop \/ RLRun \/ RLApps

LogLoopStep == LLApp \/ LLClosed \/ LLDone

(***************************************************************************)
(* Every goroutine that can take a step of its own takes one (the Go        *)
(* scheduler), and a select whose ctx.Done() case is ready again and again  *)
(* takes it at some point (select chooses among ready cases at random).     *)
(* Nothing is assumed of stdin or of the watched files.                     *)
(***************************************************************************)
SpecDev ==
    /\ InitDev /\ [][NextDev]_vars
    /\ WF_vars(ReadInputStep) /\ WF_vars(ReaderStep) /\ WF_vars(BuildLoopStep)
    /\ WF_vars(RunLoopStep) /\ WF_vars(LogLoopStep)
    /\ SF_vars(RIDone) /\ SF_vars(BLDone) /\ SF_vars(RLDone) /\ SF_vars(LLDone)

(***************************************************************************)
(* Reading a pass's trace.                                                  *)
(***************************************************************************)
\* the calls that resolve a name: store lookups, job lookups, generator calls
ResolutionOps == {"get", "list", "job", "pods", "generate", "create"}

\* the calls a cached or bound name must not cause
GenerationOps == {"list", "job", "pods", "generate", "create"}

IsGenerated(n) == n \in DOMAIN app.Secrets /\ app.Secrets[n].Type = "generated"

\* the names the main loop has visited, in order
RECURSIVE VisitsOf(_)
VisitsOf(log) ==
    IF log = <<>> THEN <<>>
    ELSE IF Head(log).op = "visit" THEN <<Head(log).name>> \o VisitsOf(Tail(log))
    ELSE VisitsOf(Tail(log))

\* position i of the trace is getOrCreateSecret returning to the main loop
MainReturn(log, i) ==
    /\ log[i].op = "return"
    /\ i + 1 <= Len(log)
    /\ log[i + 1].op = "outcome"

\* name n precedes name m in the order the spec gives
Precedes(n, m) ==
    \/ ~IsGenerated(n) /\ IsGenerated(m)
    \/ IsGenerated(n) = IsGenerated(m) /\ StrLess(n, m)

ProjectedNames(r) == { r.objects[i].Name : i \in 1..Len(r.objects) }

MissingNames(r) == { r.missing[i] : i \in 1..Len(r.missing) }

ErroredNames(r) == { r.errored[i].name : i \in 1..Len(r.errored) }

\* a store fault was answered to some call of the pass
FaultSeen(r) == \E i \in 1..Len(r.log) : r.log[i].res \in StoreFaults

(***************************************************************************)
(* C1.  In a pass over an application with generated and non-generated      *)
(* descriptors, no store lookup, job lookup or generator call for a         *)
(* generated descriptor happens before every non-generated descriptor has   *)
(* been classified by the main loop -- also when a TLS descriptor names a   *)
(* generated descriptor as its caSecret.  The code resolves the caSecret    *)
(* on the spot, so the statement fails.                                     *)
(***************************************************************************)
C1_GeneratedAfterTheRest ==
    \A p \in Procs :
        LET log == pass[p].log
        IN  \A j \in 1..Len(log) :
               (log[j].op \in ResolutionOps /\ IsGenerated(log[j].name))
               => \A n \in DOMAIN app.Secrets :
                     ~IsGenerated(n)
                     => \E i \in 1..(j - 1) : log[i].op = "outcome" /\ log[i].name = n

(***************************************************************************)
(* C2.  The main loop visits the descriptors in the spec's order: those     *)
(* not of type generated in ascending name order, then the generated ones   *)
(* in ascending name order, none twice; what has been visited is always a   *)
(* prefix of that order, and a pass that no fatal fault cut short has       *)
(* visited every descriptor.                                                *)
(***************************************************************************)
C2_VisitOrder ==
    \A p \in Procs :
        LET v == VisitsOf(pass[p].log)
        IN  /\ \A i, j \in 1..Len(v) : i < j => Precedes(v[i], v[j])
            /\ \A i \in 1..Len(v) : \A n \in DOMAIN app.Secrets :
                  Precedes(n, v[i]) => \E k \in 1..(i - 1) : v[k] = n
            /\ (pass[p].pc = "done" /\ pass[p].err = "nil")
               => /\ Len(v) = Cardinality(DOMAIN app.Secrets)
                  /\ { v[i] : i \in 1..Len(v) } = DOMAIN app.Secrets

\* a finished pass over three descriptors whose generated one sorts first
C2_Witness ==
    /\ pass[1].pc = "done"
    /\ pass[1].err = "nil"
    /\ VisitsOf(pass[1].log) = <<"a-b", "b", "a">>

(***************************************************************************)
(* C3.  A store fault other than absence aborts the pass at once: nothing   *)
(* later is attempted, the condition is that error -- and the pass has      *)
(* emitted no projected object at all, not even for descriptors resolved    *)
(* before the fault.  The code hands each projection to the response        *)
(* inside the loop, so the last part fails.                                 *)
(***************************************************************************)
C3_FaultLeavesNoProjection ==
    \A p \in Procs :
        LET r == pass[p]
        IN  FaultSeen(r) /\ r.pc = "done"
            => /\ r.objects = <<>>
               /\ r.cond.status = "error"
               /\ r.err \in StoreFaults
               /\ r.cond.msg = r.err

(***************************************************************************)
(* C4.  A descriptor whose resolution ends in NotFound is never projected;  *)
(* an optional one is in neither list, a required one is in the missing     *)
(* list and the finished pass reports an error; a pass whose descriptors    *)
(* all resolved or were optional and absent reports success.                *)
(***************************************************************************)
C4_AbsenceByOptional ==
    \A p \in Procs :
        LET r == pass[p]
            log == r.log
        IN  /\ \A i \in 1..Len(log) :
                  (MainReturn(log, i) /\ log[i].res = "NotFound")
                  => LET n == log[i].name
                     IN  /\ n \notin ProjectedNames(r)
                         /\ n \notin ErroredNames(r)
                         /\ app.Secrets[n].Optional = "true" => n \notin MissingNames(r)
                         /\ app.Secrets[n].Optional # "true"
                            => /\ n \in MissingNames(r)
                               /\ r.pc = "done" => r.cond.status = "error"
            /\ ( /\ r.pc = "done"
                 /\ \A i \in 1..Len(log) :
                       MainReturn(log, i)
                       => \/ log[i].res = "nil"
                          \/ /\ log[i].res = "NotFound"
                             /\ app.Secrets[log[i].name].Optional = "true" )
               => r.cond = Cond("success", "")

\* a finished pass with one optional and one required descriptor, both absent
C4_Witness ==
    /\ pass[1].pc = "done"
    /\ pass[1].err = "nil"
    /\ pass[1].missing = <<"b">>
    /\ \E i \in 1..Len(pass[1].log) :
          /\ MainReturn(pass[1].log, i)
          /\ pass[1].log[i] = Ev("return", "a", "NotFound")
          /\ app.Secrets["a"].Optional = "true"

(***************************************************************************)
(* C5.  An absence or a generator error for one descriptor does not stop    *)
(* the pass: the next descriptor in the order is visited, CreateSecrets     *)
(* returns no such error, and every descriptor that resolved is projected.  *)
(***************************************************************************)
C5_PassContinues ==
    \A p \in Procs :
        LET r == pass[p]
            log == r.log
        IN  /\ r.err \notin GeneratorErrors \cup {"NotFound"}
            /\ r.pc = "done"
               => \A i \in 1..Len(log) :
                     /\ ( /\ MainReturn(log, i)
                          /\ log[i].res \in GeneratorErrors \cup {"NotFound"} )
                        => \A k \in 1..(Len(r.order) - 1) :
                              r.order[k] = log[i].name
                              => \E j \in (i + 1)..Len(log) :
                                    log[j] = Ev("visit", r.order[k + 1], "")
                     /\ (MainReturn(log, i) /\ log[i].res = "nil")
                        => log[i].name \in ProjectedNames(r)
            /\ (r.pc = "done" /\ ~FaultSeen(r)) => r.err = "nil"

\* a finished pass whose first descriptor errored and whose second is projected
C5_Witness ==
    /\ pass[1].pc = "done"
    /\ pass[1].err = "nil"
    /\ ErroredNames(pass[1]) = {"a"}
    /\ ProjectedNames(pass[1]) = {"b"}

(***************************************************************************)
(* C6.  A finished pass has set the condition, and the condition is         *)
(* success exactly when no store fault was answered and the missing and     *)
(* errored lists are both empty; otherwise it is an error.                  *)
(***************************************************************************)
C6_ConditionAtEnd ==
    \A p \in Procs :
        LET r == pass[p]
        IN  r.pc = "done"
            => /\ r.cond.status \in {"success", "error"}
               /\ r.condCalls >= 1
               /\ r.cond.status = "success"
                  <=> (~FaultSeen(r) /\ r.missing = <<>> /\ r.errored = <<>>)

\* a finished pass with nothing missing, one descriptor errored, no fault
C6_Witness ==
    /\ pass[1].pc = "done"
    /\ ~FaultSeen(pass[1])
    /\ pass[1].missing = <<>>
    /\ Len(pass[1].errored) = 1
    /\ pass[1].cond.status = "error"

(***************************************************************************)
(* C7.  Once a name is in the pass-scoped cache, every later resolution of  *)
(* it in the pass is a cache hit that returns the cached entry and causes   *)
(* no store lookup, binding fetch, job lookup, generator call or Create;    *)
(* and the entry is neither replaced nor removed while the pass runs.       *)
(***************************************************************************)
C7_HitsOnly ==
    \A p \in Procs :
        LET r == pass[p]
            log == r.log
        IN  /\ \A i \in 1..Len(log) :
                  log[i].op = "cache"
                  => /\ log[i].name \in DOMAIN r.secrets
                     /\ \A j \in (i + 1)..Len(log) :
                           log[j].name = log[i].name
                           => /\ log[j].op \notin ResolutionOps \cup {"cache"}
                              /\ log[j].op = "resolve"
                                 => /\ j + 1 <= Len(log)
                                    /\ log[j + 1] = Ev("hit", log[i].name, "")
            /\ (Len(log) > 0 /\ log[Len(log)].op = "hit")
               => /\ r.pc = "ret"
                  /\ r.ret = Result(r.secrets[log[Len(log)].name], "nil")

C7_EntriesKept ==
    \A p \in Procs :
        pass'[p].n = pass[p].n
        => \A n \in DOMAIN pass[p].secrets :
              /\ n \in DOMAIN pass'[p].secrets
              /\ pass'[p].secrets[n] = pass[p].secrets[n]

C7_CacheWins == []C7_HitsOnly /\ [][C7_EntriesKept]_vars

\* a TLS leaf asks for its CA, which the main loop resolved before: a hit
C7_Witness ==
    /\ Len(pass[1].stack) = 2
    /\ pass[1].pc = "ret"
    /\ Len(pass[1].log) > 0
    /\ pass[1].log[Len(pass[1].log)].op = "hit"

(***************************************************************************)
(* C8.  As claimed: within one pass a generator is invoked at most once     *)
(* per descriptor name, also when the attempt fails.  The cache holds       *)
(* successes only, so a failing CA descriptor is generated again for each   *)
(* leaf that names it and once more by the main loop.                       *)
(***************************************************************************)
GenerateCount(log, n) ==
    Cardinality({ i \in 1..Len(log) : log[i].op = "generate" /\ log[i].name = n })

C8_AtMostOneAttempt ==
    \A p \in Procs : \A n \in SecretNames : GenerateCount(pass[p].log, n) <= 1

(***************************************************************************)
(* C8, amended.  Within one pass a generator succeeds at most once per      *)
(* name: after a generation of the name has succeeded (it is cached) no     *)
(* generator is invoked for it again, and at most one Create is answered    *)
(* with success for it; a failed attempt is not remembered.                 *)
(***************************************************************************)
C8_AtMostOneSuccess ==
    \A p \in Procs : \A n \in SecretNames :
        LET log == pass[p].log
            made == { i \in 1..Len(log) : log[i] = Ev("cache", n, "") }
            creates == { i \in 1..Len(log) : log[i] = Ev("create", n, "nil") }
        IN  /\ Cardinality(made) <= 1
            /\ Cardinality(creates) <= 1
            /\ \A i \in made : \A j \in (i + 1)..Len(log) :
                  ~(log[j].op = "generate" /\ log[j].name = n)

\* the CA b was generated once, for the first leaf, and was a cache hit for
\* the second leaf and for the main loop
C8_Witness ==
    LET log == pass[1].log
    IN  /\ pass[1].pc = "done"
        /\ GenerateCount(log, "b") = 1
        /\ \E i \in 1..Len(log) : log[i] = Ev("create", "b", "nil")
        /\ Cardinality({ j \in 1..Len(log) : log[j] = Ev("hit", "b", "") }) = 2

(***************************************************************************)
(* C9.  As claimed: when a binding exists for a descriptor name and the     *)
(* bound external secret does not exist, the pass is aborted with a fatal   *)
(* lookup error and the descriptor is not classified missing or skipped.    *)
(* The Get answers NotFound, which the main loop takes for absence.         *)
(***************************************************************************)
\* position i is the Get of a bound secret that does not exist, made for a
\* descriptor the main loop is resolving itself
BoundTargetAbsent(log, i) ==
    /\ log[i].op = "get"
    /\ log[i].res = "NotFound"
    /\ i + 1 <= Len(log)
    /\ MainReturn(log, i + 1)

C9_AbsentTargetIsFatal ==
    \A p \in Procs :
        LET r == pass[p]
            log == r.log
        IN  \A i \in 1..Len(log) :
               BoundTargetAbsent(log, i)
               => /\ log[i].name \notin MissingNames(r)
                  /\ r.pc = "done"
                  /\ r.err # "nil"
                  /\ r.idx = Len(VisitsOf(SubSeq(log, 1, i)))

(***************************************************************************)
(* C9, amended.  When a binding exists for a descriptor name and the bound  *)
(* external secret does not exist, the Get's NotFound counts as absence:    *)
(* the pass is not aborted by it, the descriptor is in the missing list if  *)
(* it is required and in no list if it is optional, and it is not           *)
(* projected.                                                               *)
(***************************************************************************)
C9_AbsentTargetIsAbsence ==
    \A p \in Procs :
        LET r == pass[p]
            log == r.log
        IN  /\ r.err # "NotFound"
            /\ r.cond.msg # "NotFound"
            /\ \A i \in 1..Len(log) :
                  BoundTargetAbsent(log, i)
                  => LET n == log[i].name
                     IN  /\ log[i + 2].op = "outcome"
                         /\ log[i + 2].res # "fatal"
                         /\ r.idx > Len(VisitsOf(SubSeq(log, 1, i)))
                         /\ n \notin ProjectedNames(r)
                         /\ n \notin ErroredNames(r)
                         /\ n \in MissingNames(r) <=> app.Secrets[n].Optional # "true"

\* the binding of the required descriptor a names a secret that is not
\* there; the pass went on and projected b
C9_Witness ==
    /\ pass[1].pc = "done"
    /\ pass[1].err = "nil"
    /\ pass[1].missing = <<"a">>
    /\ ProjectedNames(pass[1]) = {"b"}
    /\ \E i \in 1..Len(pass[1].log) :
          BoundTargetAbsent(pass[1].log, i) /\ pass[1].log[i].name = "a"

(***************************************************************************)
(* C10.  When a binding exists for a name and the bound secret exists, the  *)
(* name resolves to exactly the bound secret's data and type, and no label  *)
(* search, job lookup, generator call or Create is made for it -- from the  *)
(* main loop or as a caSecret, with or without a labelled stored object.    *)
(***************************************************************************)
\* the secret the first binding for n points at
BoundTo(n) ==
    LET hits == { i \in 1..Len(app.Bindings) : app.Bindings[i].SecretRequest = n }
        first == CHOOSE i \in hits : \A j \in hits : i <= j
    IN  app.Bindings[first].Secret

IsBound(n) ==
    /\ \E i \in 1..Len(app.Bindings) : app.Bindings[i].SecretRequest = n
    /\ BoundTo(n) \in DOMAIN Externals

C10_BindingBypassesGeneration ==
    \A p \in Procs : \A n \in SecretNames :
        IsBound(n)
        => LET r == pass[p]
               bound == Externals[BoundTo(n)]
           IN  /\ \A i \in 1..Len(r.log) :
                     r.log[i].name = n => r.log[i].op \notin GenerationOps
               /\ \A i \in 1..Len(r.log) :
                     (r.log[i] = Ev("return", n, "nil"))
                     => /\ n \in DOMAIN r.secrets
                        /\ r.secrets[n].Data = bound.Data
                        /\ r.secrets[n].Type = bound.Type
               /\ (r.pc = "ret" /\ Top(r) = n /\ r.ret.err = "nil")
                  => /\ r.ret.secret.Data = bound.Data
                     /\ r.ret.secret.Type = bound.Type
               /\ \A i \in 1..Len(r.objects) :
                     r.objects[i].Name = n
                     => /\ r.objects[i].Data = bound.Data
                        /\ r.objects[i].Type = bound.Type

\* the bound name b is asked for as the caSecret of leaf a while the store
\* also holds a labelled object for b
C10_Witness ==
    /\ IsBound("b")
    /\ \E i \in 1..Len(store) : MatchesLabels(store[i], "b")
    /\ pass[1].stack = <<"a", "b">>
    /\ pass[1].pc = "ret"
    /\ pass[1].ret = Result(Externals[BoundTo("b")], "nil")
    /\ pass[1].log[Len(pass[1].log)] = Ev("cache", "b", "")

(***************************************************************************)
(* C11.  If the store holds, when the pass begins, an object labelled for   *)
(* (application, name) and the name has no binding, the pass invokes no     *)
(* generator, reads no job and issues no Create for the name; the name      *)
(* resolves to the data and type of the stored object, whatever the         *)
(* descriptor says.                                                         *)
(***************************************************************************)
\* the objects of s that carry the labels of name n
HeldFor(s, n) == { s[i] : i \in { j \in 1..Len(s) : MatchesLabels(s[j], n) } }

\* the one of them with the smallest UID
Canonical(s, n) == CHOOSE o \in HeldFor(s, n) : \A q \in HeldFor(s, n) : o.UID <= q.UID

HasBinding(n) == \E i \in 1..Len(app.Bindings) : app.Bindings[i].SecretRequest = n

C11_StoredObjectIsAdopted ==
    \A p \in Procs : \A n \in SecretNames :
        LET r == pass[p]
            log == r.log
        IN  (r.pc # "idle" /\ HeldFor(r.store0, n) # {} /\ ~HasBinding(n))
            => /\ \A i \in 1..Len(log) :
                     log[i].name = n
                     => /\ log[i].op \notin {"generate", "create", "job", "pods"}
                        /\ log[i].op = "return" => log[i].res \in StoreFaults \cup {"nil"}
               /\ \A i \in 1..Len(log) :
                     log[i] = Ev("return", n, "nil")
                     => /\ n \in DOMAIN r.secrets
                        /\ r.secrets[n].Data = Canonical(r.store0, n).Data
                        /\ r.secrets[n].Type = Canonical(r.store0, n).Type
               /\ \A i \in 1..Len(r.objects) :
                     r.objects[i].Name = n
                     => /\ r.objects[i].Data = Canonical(r.store0, n).Data
                        /\ r.objects[i].Type = Canonical(r.store0, n).Type

\* a basic descriptor a whose stored object is of another type: the pass
\* projected the stored data and created nothing
C11_Witness ==
    /\ pass[1].pc = "done"
    /\ app.Secrets = Function1("a", Desc("basic", "false", SeededUser, "", "", "", TRUE))
    /\ ~HasBinding("a")
    /\ HeldFor(pass[1].store0, "a") # {}
    /\ Len(pass[1].objects) = 1
    /\ pass[1].objects[1].Type = "Opaque"
    /\ pass[1].objects[1].Data = StoredData(3)
    /\ store = pass[1].store0

(***************************************************************************)
(* C12.  A pass that follows another pass of the same worker, with the      *)
(* store, the job and the pods as the first pass left them: a descriptor    *)
(* the first pass resolved is never created again (only a job-derived one,  *)
(* which has no storage object, is read from its job again), every          *)
(* resolution of it yields the same storage object (same UID), data and     *)
(* type, and it is projected with that data; and when the store answered    *)
(* every call of both passes, the second pass creates nothing at all.       *)
(* Store faults are events of the environment: a faulted call is the only   *)
(* way the second pass fails to resolve such a descriptor.                  *)
(***************************************************************************)
C12_SecondPassRepeats ==
    \A p \in Procs :
        LET r == pass[p]
            log == r.log
        IN  r.n >= 2
            => /\ \A n \in DOMAIN app.Secrets \cap DOMAIN r.prev :
                     /\ \A i \in 1..Len(log) :
                           log[i].name = n
                           => /\ log[i].op # "create"
                              /\ log[i].op = "generate" => IsGenerated(n)
                              /\ log[i].op = "return"
                                 => log[i].res \in StoreFaults \cup {"nil"}
                     /\ n \in DOMAIN r.secrets => r.secrets[n] = r.prev[n]
                     /\ \A i \in 1..Len(r.objects) :
                           r.objects[i].Name = n
                           => r.objects[i] = Projection(n, r.prev[n])
                     /\ (r.pc = "done" /\ r.err = "nil")
                        => n \in DOMAIN r.secrets /\ n \in ProjectedNames(r)
               /\ faults = MaxFaults
                  => /\ store = r.store0
                     /\ \A i \in 1..Len(log) : log[i].op # "create"

\* the second pass is over: a was created by the first pass and is found
\* again, the job-derived b was read again with the same result
C12_Witness ==
    /\ pass[1].n = 2
    /\ pass[1].pc = "done"
    /\ faults = MaxFaults
    /\ DOMAIN app.Secrets = {"a", "b"}
    /\ DOMAIN pass[1].prev = {"a", "b"}
    /\ pass[1].prev["a"].UID # 0
    /\ app.Secrets["b"].Type = "generated"
    /\ pass[1].secrets = pass[1].prev
    /\ ProjectedNames(pass[1]) = {"a", "b"}
    /\ store = pass[1].store0
    /\ Len(store) = 1

(***************************************************************************)
(* C13.  Every generator that returns success has persisted the secret it   *)
(* returns: once a generation of a name has succeeded (the name was cached  *)
(* after its generator ran), the store holds an object with a UID of its    *)
(* own, labelled with the name, carrying the returned data.  generatedSecret *)
(* returns its secret without a Create, so the statement fails for the      *)
(* job-derived descriptors.                                                 *)
(***************************************************************************)
\* the generator of name n ran in this pass and its result was cached
GeneratedOK(log, n) ==
    \E i, j \in 1..Len(log) :
        /\ i < j
        /\ log[i].op = "generate" /\ log[i].name = n
        /\ log[j] = Ev("cache", n, "")

C13_GeneratorPersists ==
    \A p \in Procs : \A n \in DescNames :
        LET r == pass[p]
        IN  GeneratedOK(r.log, n)
            => /\ n \in DOMAIN r.secrets
               /\ r.secrets[n].UID # 0
               /\ \E o \in HeldFor(store, n) :
                     o.UID = r.secrets[n].UID /\ o.Data = r.secrets[n].Data

(***************************************************************************)
(* C14.  When several stored objects carry the labels of a name, getSecret  *)
(* returns the one with the smallest UID, in whatever order the store       *)
(* lists them; a pass adopts that object, and so does the pass after it.    *)
(***************************************************************************)
\* every order in which the store may list the objects of s
Listings(s) ==
    LET idx == 1..Len(s)
    IN  { [i \in idx |-> s[f[i]]] :
            f \in { g \in [idx -> idx] : \A i, j \in idx : g[i] = g[j] => i = j } }

\* the name was adopted from the store in this pass: its List found it
Adopted(log, n) == \E i \in 1..Len(log) : log[i] = Ev("list", n, "nil")

C14_SmallestUIDWins ==
    /\ \A n \in SecretNames : \A l \in Listings(store) :
          getSecret(l, n) = IF HeldFor(store, n) = {} THEN Result(NilSecret, "NotFound")
                            ELSE Result(Canonical(store, n), "nil")
    /\ \A p \in Procs : \A n \in SecretNames :
          LET r == pass[p]
          IN  Adopted(r.log, n)
              => /\ n \in DOMAIN r.secrets
                 /\ r.secrets[n] = Canonical(r.store0, n)
                 /\ (r.n >= 2 /\ n \in DOMAIN r.prev) => r.prev[n] = r.secrets[n]

\* the store lists two objects for a, the larger UID first; two passes in a
\* row adopted the smaller one
C14_Witness ==
    /\ Len(store) = 2
    /\ MatchesLabels(store[1], "a") /\ MatchesLabels(store[2], "a")
    /\ store[1].UID > store[2].UID
    /\ pass[1].n = 2
    /\ Adopted(pass[1].log, "a")
    /\ "a" \in DOMAIN pass[1].secrets \cap DOMAIN pass[1].prev
    /\ pass[1].secrets["a"] = store[2]
    /\ pass[1].prev["a"] = store[2]

(***************************************************************************)
(* C15.  When TLS descriptors of one application name the same caSecret     *)
(* and are generated in one pass, the CA secret is obtained exactly once    *)
(* in that pass -- one successful fetch or generation, at most one Create   *)
(* for the CA name -- and every such leaf is signed with the CA             *)
(* certificate of that one resolved CA secret.                              *)
(***************************************************************************)
\* the TLS descriptors that took their CA from caSecret c in this pass and
\* were created
LeavesOf(r, c) ==
    { l \in DOMAIN app.Secrets :
        /\ app.Secrets[l].Type = "tls"
        /\ app.Secrets[l].Params.caSecret = c
        /\ app.Secrets[l].Data = NoData
        /\ \E i \in 1..Len(r.log) : r.log[i] = Ev("create", l, "nil") }

CountOf(log, e) == Cardinality({ i \in 1..Len(log) : log[i] = e })

C15_SharedCA ==
    \A p \in Procs : \A c \in SecretNames :
        LET r == pass[p]
            log == r.log
        IN  LeavesOf(r, c) # {}
            => /\ c \in DOMAIN r.secrets
               /\ CountOf(log, Ev("cache", c, "")) = 1
               /\ CountOf(log, Ev("create", c, "nil")) <= 1
               /\ GenerateCount(log, c) <= 1
               /\ CountOf(log, Ev("list", c, "nil")) + CountOf(log, Ev("get", c, "nil"))
                    + GenerateCount(log, c) = 1
               /\ \A l \in LeavesOf(r, c) :
                     /\ l \in DOMAIN r.secrets
                     /\ At(r.secrets[c].Data, "ca.crt").len > 0
                     /\ r.secrets[l].Data["tls.crt"].by = At(r.secrets[c].Data, "ca.crt").id

\* leaves a and a-b both name the TLS descriptor b, which the pass generated
\* for the first of them
C15_Witness ==
    /\ pass[1].pc = "done"
    /\ LeavesOf(pass[1], "b") = {"a", "a-b"}
    /\ CountOf(pass[1].log, Ev("create", "b", "nil")) = 1
    /\ pass[1].secrets["a"].Data["tls.crt"].by = pass[1].secrets["b"].Data["ca.crt"].id
    /\ pass[1].secrets["a-b"].Data["tls.crt"].by = pass[1].secrets["b"].Data["ca.crt"].id
    /\ pass[1].secrets["a"].Data["tls.crt"].id # pass[1].secrets["a-b"].Data["tls.crt"].id

(***************************************************************************)
(* C16.  A TLS descriptor generated without seeded certificate and key is   *)
(* stored with a non-empty certificate and key; with a non-empty CA         *)
(* certificate and CA key when the CA was generated for it (no caSecret);   *)
(* and with empty ca.crt and ca.key when the CA came from its caSecret.     *)
(***************************************************************************)
\* TLS descriptor l was signed and created in this pass
SignedLeaf(r, l) ==
    /\ l \in DOMAIN app.Secrets
    /\ app.Secrets[l].Type = "tls"
    /\ At(app.Secrets[l].Data, "tls.crt").len = 0 \/ At(app.Secrets[l].Data, "tls.key").len = 0
    /\ \E i \in 1..Len(r.log) : r.log[i] = Ev("create", l, "nil")

\* the descriptor seeds both halves of the CA
CASeeded(ref) == At(ref.Data, "ca.crt").len > 0 /\ At(ref.Data, "ca.key").len > 0

C16_LeafContents ==
    \A p \in Procs : \A l \in DescNames :
        LET r == pass[p]
            ref == app.Secrets[l]
        IN  SignedLeaf(r, l)
            => /\ l \in DOMAIN r.secrets
               /\ r.secrets[l] \in HeldFor(store, l)
               /\ LET data == r.secrets[l].Data
                  IN  /\ At(data, "tls.crt").len > 0
                      /\ At(data, "tls.key").len > 0
                      /\ (ref.Params.caSecret = "" /\ ~CASeeded(ref))
                         => /\ At(data, "ca.crt").len > 0
                            /\ At(data, "ca.key").len > 0
                            /\ data["tls.crt"].by = data["ca.crt"].id
                      /\ (ref.Params.caSecret # "" /\ ~CASeeded(ref))
                         => /\ At(data, "ca.crt").len = 0
                            /\ At(data, "ca.key").len = 0

\* the same for the descriptors that seed neither half of the CA
NoCASeed(ref) == At(ref.Data, "ca.crt").len = 0 /\ At(ref.Data, "ca.key").len = 0

C16_UnseededLeafContents ==
    \A p \in Procs : \A l \in DescNames :
        LET r == pass[p]
            ref == app.Secrets[l]
        IN  (SignedLeaf(r, l) /\ NoCASeed(ref))
            => /\ l \in DOMAIN r.secrets
               /\ r.secrets[l] \in HeldFor(store, l)
               /\ LET data == r.secrets[l].Data
                  IN  /\ At(data, "tls.crt").len > 0
                      /\ At(data, "tls.key").len > 0
                      /\ IF ref.Params.caSecret = ""
                         THEN /\ At(data, "ca.crt").len > 0
                              /\ At(data, "ca.key").len > 0
                              /\ data["tls.crt"].by = data["ca.crt"].id
                         ELSE /\ At(data, "ca.crt").len = 0
                              /\ At(data, "ca.key").len = 0

\* a seeds ca.crt only and names b: the test of line 183 takes the CA from b,
\* lines 205-208 leave the seeded ca.crt on the leaf that b's CA signed
C16_WitnessHalfSeeded ==
    /\ pass[1].pc = "done"
    /\ SignedLeaf(pass[1], "a") /\ app.Secrets["a"].Params.caSecret = "b"
    /\ app.Secrets["a"].Data = HalfSeededCA
    /\ "b" \in DOMAIN pass[1].secrets
    /\ pass[1].secrets["a"] \in HeldFor(store, "a")
    /\ pass[1].secrets["a"].Data["ca.crt"] = HalfSeededCA["ca.crt"]
    /\ pass[1].secrets["a"].Data["ca.key"].len = 0
    /\ pass[1].secrets["a"].Data["tls.crt"].by = pass[1].secrets["b"].Data["ca.crt"].id
    /\ pass[1].secrets["a"].Data["tls.crt"].by # pass[1].secrets["a"].Data["ca.crt"].id

\* b was generated with a CA of its own, a was signed with the CA of b
C16_Witness ==
    /\ pass[1].pc = "done"
    /\ SignedLeaf(pass[1], "a") /\ app.Secrets["a"].Params.caSecret = "b"
    /\ SignedLeaf(pass[1], "b") /\ app.Secrets["b"].Params.caSecret = ""
    /\ pass[1].secrets["a"].Data["ca.crt"].len = 0
    /\ pass[1].secrets["b"].Data["ca.crt"].len > 0
    /\ pass[1].secrets["a"].Data["tls.crt"].by = pass[1].secrets["b"].Data["ca.crt"].id

(***************************************************************************)
(* C17.  When a TLS leaf takes its CA from a TLS descriptor that the store  *)
(* does not hold and no binding covers, the pass creates the CA's storage   *)
(* object before the leaf's -- also when the leaf's name sorts first and    *)
(* the CA is resolved by re-entry -- and creates exactly one object for     *)
(* each of the two.                                                         *)
(***************************************************************************)
\* the position in the trace of the successful Create for name n
CreatedAt(log, n) == CHOOSE i \in 1..Len(log) : log[i] = Ev("create", n, "nil")

\* the position in the store of the one object labelled for n
StoredAt(n) == CHOOSE i \in 1..Len(store) : MatchesLabels(store[i], n)

C17_CABeforeLeaf ==
    \A p \in Procs : \A l \in DescNames :
        LET r == pass[p]
            log == r.log
            c == app.Secrets[l].Params.caSecret
        IN  ( /\ SignedLeaf(r, l)
              /\ ~CASeeded(app.Secrets[l])
              /\ c \in DOMAIN app.Secrets
              /\ app.Secrets[c].Type = "tls"
              /\ HeldFor(r.store0, c) = {}
              /\ ~HasBinding(c) )
            => /\ CountOf(log, Ev("create", c, "nil")) = 1
               /\ CountOf(log, Ev("create", l, "nil")) = 1
               /\ CreatedAt(log, c) < CreatedAt(log, l)
               /\ Cardinality(HeldFor(store, c)) = 1
               /\ Cardinality(HeldFor(store, l)) = 1
               /\ StoredAt(c) < StoredAt(l)

\* leaf a names b as its CA; b was created during the generation of a,
\* before a itself
C17_Witness ==
    LET log == pass[1].log
    IN  /\ DOMAIN app.Secrets = {"a", "b"}
        /\ app.Secrets["a"].Params.caSecret = "b"
        /\ SignedLeaf(pass[1], "a")
        /\ SignedLeaf(pass[1], "b")
        /\ \E i, j, k \in 1..Len(log) :
              /\ i < j /\ j < k
              /\ log[i] = Ev("generate", "a", "tls")
              /\ log[j] = Ev("create", "b", "nil")
              /\ log[k] = Ev("create", "a", "nil")
        /\ Len(store) = 2
        /\ store[1].SecretName = "b"
        /\ store[2].SecretName = "a"

(***************************************************************************)
(* C18.  Every projected object is named as its descriptor, lies in the     *)
(* application's target namespace, carries the data and type of the secret  *)
(* the descriptor resolved to (stored, bound or freshly generated), and     *)
(* carries exactly the application name, application namespace and managed  *)
(* labels -- not the owner or descriptor-name labels of a storage object.   *)
(***************************************************************************)
C18_ProjectionShape ==
    \A p \in Procs :
        LET r == pass[p]
        IN  \A i \in 1..Len(r.objects) :
               LET o == r.objects[i]
               IN  /\ o.Name \in DOMAIN app.Secrets
                   /\ o.Name \in DOMAIN r.secrets
                   /\ o.Namespace = "app-target-ns"
                   /\ o.Data = r.secrets[o.Name].Data
                   /\ o.Type = r.secrets[o.Name].Type
                   /\ o.Labels = {"app-name", "app-namespace", "managed"}
                   /\ DOMAIN o = {"Name", "Namespace", "Labels", "Data", "Type"}

\* a finished pass that projected a freshly generated a and a bound b
C18_Witness ==
    /\ pass[1].pc = "done"
    /\ Len(pass[1].objects) = 2
    /\ pass[1].objects[1].Name = "a"
    /\ pass[1].secrets["a"].UID # 0
    /\ GenerateCount(pass[1].log, "a") = 1
    /\ pass[1].objects[1].Data = pass[1].secrets["a"].Data
    /\ pass[1].objects[2].Name = "b"
    /\ IsBound("b")
    /\ pass[1].objects[2].Data = Externals[BoundTo("b")].Data
    /\ pass[1].objects[2].Type = "kubernetes.io/tls"

(***************************************************************************)
(* C19.  When a pass ends without a fatal error, the projected objects are  *)
(* exactly one per descriptor that resolved: none for a missing, skipped    *)
(* or errored descriptor, none for a name that is only a caSecret or the    *)
(* target of a binding, and one only for a descriptor that a caSecret       *)
(* re-entry resolved before the main loop reached it.                       *)
(***************************************************************************)
\* the descriptors whose resolution returned a secret to the main loop
ResolvedNames(log) ==
    { log[i].name : i \in { j \in 1..Len(log) : MainReturn(log, j) /\ log[j].res = "nil" } }

\* the descriptors whose resolution returned an error to the main loop
FailedNames(log) ==
    { log[i].name : i \in { j \in 1..Len(log) : MainReturn(log, j) /\ log[j].res # "nil" } }

C19_OnePerResolved ==
    \A p \in Procs :
        LET r == pass[p]
        IN  (r.pc = "done" /\ r.err = "nil")
            => /\ ProjectedNames(r) = ResolvedNames(r.log)
               /\ Len(r.objects) = Cardinality(ProjectedNames(r))
               /\ ProjectedNames(r) \subseteq DOMAIN app.Secrets
               /\ ProjectedNames(r) = DOMAIN app.Secrets \ FailedNames(r.log)
               /\ ProjectedNames(r) \cap (MissingNames(r) \cup ErroredNames(r)) = {}
               /\ \A i \in 1..Len(app.Bindings) :
                     app.Bindings[i].Secret \notin ProjectedNames(r)

\* leaves a and a-b name b, which the generation of a resolved by re-entry:
\* three objects, one for b
C19_Witness ==
    /\ pass[1].pc = "done"
    /\ pass[1].err = "nil"
    /\ LeavesOf(pass[1], "b") = {"a", "a-b"}
    /\ \E i \in 1..Len(pass[1].log) :
          pass[1].log[i] = Ev("return", "b", "nil") /\ ~MainReturn(pass[1].log, i)
    /\ Len(pass[1].objects) = 3
    /\ ProjectedNames(pass[1]) = {"a", "a-b", "b"}

\* the optional leaf a took its CA from the stored x, which is no descriptor,
\* and the required b is missing: one object, for a
C19_WitnessCAOnly ==
    /\ pass[1].pc = "done"
    /\ pass[1].err = "nil"
    /\ DOMAIN pass[1].secrets = {"a", "x"}
    /\ pass[1].missing = <<"b">>
    /\ ProjectedNames(pass[1]) = {"a"}

(***************************************************************************)
(* C20.  When a pass ends with a missing or an errored descriptor, the      *)
(* condition is an error whose message is the group "missing: [m1, m2]"     *)
(* if names are missing, the group "errored: [n1: cause1]" if descriptors   *)
(* errored, and both groups with one space between them, missing first,     *)
(* when both are there; a missing a and an errored b give                   *)
(* "missing: [a] errored: [b: <cause>]".                                    *)
(***************************************************************************)
C20_MessageFormat ==
    \A p \in Procs :
        LET r == pass[p]
            mg == "missing: [" \o Join(r.missing) \o "]"
            eg == "errored: [" \o Join(ErroredTexts(r.errored)) \o "]"
        IN  (r.pc = "done" /\ r.err = "nil" /\ (r.missing # <<>> \/ r.errored # <<>>))
            => /\ r.cond.status = "error"
               /\ r.cond.msg = IF r.errored = <<>> THEN mg
                               ELSE IF r.missing = <<>> THEN eg
                               ELSE mg \o " " \o eg
               /\ (r.missing = <<"a">> /\ r.errored = <<Errored("b", "ErrJobNotDone")>>)
                  => r.cond.msg = "missing: [a] errored: [b: job not complete]"
               /\ (r.missing = <<"a", "b">> /\ r.errored = <<>>)
                  => r.cond.msg = "missing: [a, b]"

\* the required a is absent and the job of the generated b has not succeeded
C20_Witness ==
    /\ pass[1].pc = "done"
    /\ pass[1].err = "nil"
    /\ pass[1].missing = <<"a">>
    /\ pass[1].errored = <<Errored("b", "ErrJobNotDone")>>
    /\ pass[1].cond = Cond("error", "missing: [a] errored: [b: job not complete]")

(***************************************************************************)
(* C21.  A generated descriptor whose job exists with a succeeded count     *)
(* other than 1 is classified errored with cause ErrJobNotDone, not         *)
(* missing; the pass goes on; nothing is created for it and nothing of it   *)
(* is carried into the next pass; and a later pass that starts after the    *)
(* job has succeeded with a pod carrying output resolves it.                *)
(***************************************************************************)
\* the job as state j shows it has succeeded and one of its pods carries output
HasOutput(j) == j.exists /\ j.Succeeded = 1 /\ FirstOutput(Flatten(j.pods)) # 0

\* the payload is one the descriptor's format accepts
Accepts(ref, j) ==
    ref.Params.format = "json" => Unmarshal(FirstOutput(Flatten(j.pods))).err = "nil"

InList(list, e) == \E i \in 1..Len(list) : list[i] = e

C21_JobNotDone ==
    \A p \in Procs : \A n \in DescNames :
        LET r == pass[p]
            log == r.log
        IN  /\ \A i \in 1..Len(log) :
                  ( /\ log[i].op = "job" /\ log[i].name = n
                    /\ log[i].res \notin StoreFaults
                    /\ jobs.exists /\ jobs.Succeeded # 1 )
                  => log[i].res = "ErrJobNotDone"
            /\ \A i \in 1..Len(log) :
                  (log[i] = Ev("job", n, "ErrJobNotDone") /\ i + 1 <= Len(log)
                     /\ MainReturn(log, i + 1))
                  => /\ log[i + 1] = Ev("return", n, "ErrJobNotDone")
                     /\ log[i + 2] = Ev("outcome", n, "errored")
                     /\ InList(r.errored, Errored(n, "ErrJobNotDone"))
                     /\ n \notin MissingNames(r)
                     /\ n \notin ProjectedNames(r)
                     /\ n \notin DOMAIN r.secrets
                     /\ HeldFor(store, n) = {}
                     /\ r.idx > Len(VisitsOf(SubSeq(log, 1, i)))
                     /\ r.err \notin GeneratorErrors
            /\ (r.n >= 2 /\ IsGenerated(n) /\ InList(r.prevErrored, Errored(n, "ErrJobNotDone")))
               => /\ n \notin DOMAIN r.prev
                  /\ HeldFor(r.store0, n) = {}
                  /\ ( /\ HasOutput(r.jobs0)
                       /\ Accepts(app.Secrets[n], r.jobs0)
                       /\ r.pc = "done"
                       /\ r.err = "nil" )
                     => /\ n \in DOMAIN r.secrets
                        /\ n \in ProjectedNames(r)
                        /\ n \notin ErroredNames(r) \cup MissingNames(r)

\* the first pass found the job of a unfinished and went on to project b;
\* the job then succeeded and the second pass projected a
C21_Witness ==
    /\ pass[1].n = 2
    /\ pass[1].pc = "done"
    /\ DOMAIN app.Secrets = {"a", "b"}
    /\ IsGenerated("a")
    /\ pass[1].prevErrored = <<Errored("a", "ErrJobNotDone")>>
    /\ DOMAIN pass[1].prev = {"b"}
    /\ HasOutput(pass[1].jobs0)
    /\ ProjectedNames(pass[1]) = {"a", "b"}
    /\ pass[1].errored = <<>>

(***************************************************************************)
(* C22.  A generated descriptor with no stored object and no binding whose  *)
(* job does not exist, or whose job has succeeded while no pod matches its  *)
(* selector, is absent: missing when required, skipped when optional, and   *)
(* neither errored nor the cause of an abort.                               *)
(***************************************************************************)
\* the job is not there, or it succeeded and has no pods
JobAbsent == ~jobs.exists \/ (jobs.Succeeded = 1 /\ Len(jobs.pods) = 0)

C22_JobAbsence ==
    \A p \in Procs : \A n \in DescNames :
        LET r == pass[p]
            log == r.log
        IN  ( /\ r.pc # "idle"
              /\ IsGenerated(n)
              /\ JobAbsent
              /\ HeldFor(store, n) = {}
              /\ ~HasBinding(n) )
            => \A i \in 1..Len(log) :
                  (MainReturn(log, i) /\ log[i].name = n)
                  => /\ log[i].res \in StoreFaults \cup {"NotFound"}
                     /\ log[i].res = "NotFound"
                        => /\ log[i + 1] = Ev("outcome", n,
                                              IF app.Secrets[n].Optional = "true"
                                              THEN "skipped" ELSE "missing")
                           /\ n \in MissingNames(r) <=> app.Secrets[n].Optional # "true"
                           /\ n \notin ErroredNames(r)
                           /\ n \notin ProjectedNames(r)
                           /\ r.idx > Len(VisitsOf(SubSeq(log, 1, i)))
                           /\ (r.pc = "done" /\ ~FaultSeen(r)) => r.err = "nil"

\* the job of the optional generated b succeeded and has no pods: skipped
C22_Witness ==
    /\ pass[1].pc = "done"
    /\ pass[1].err = "nil"
    /\ jobs.exists /\ jobs.Succeeded = 1 /\ Len(jobs.pods) = 0
    /\ IsGenerated("b") /\ app.Secrets["b"].Optional = "true"
    /\ InList(pass[1].log, Ev("pods", "b", "NotFound"))
    /\ InList(pass[1].log, Ev("outcome", "b", "skipped"))
    /\ pass[1].missing = <<>>
    /\ pass[1].errored = <<>>

\* the job of the required generated a does not exist: missing
C22_WitnessNoJob ==
    /\ pass[1].pc = "done"
    /\ pass[1].err = "nil"
    /\ ~jobs.exists
    /\ IsGenerated("a") /\ app.Secrets["a"].Optional # "true"
    /\ InList(pass[1].log, Ev("job", "a", "NotFound"))
    /\ pass[1].missing = <<"a">>
    /\ pass[1].cond.status = "error"

(***************************************************************************)
(* C23.  For a succeeded job with at least one pod, the payload is the      *)
(* termination message of the first container status, in pod order and      *)
(* then container order, that terminated with exit code 0 and has a         *)
(* non-empty message; statuses that are not terminated, exited non-zero or  *)
(* have an empty message are passed over; when no status qualifies the      *)
(* result is ErrJobNoOutput and the descriptor is errored.                  *)
(***************************************************************************)
\* the places <<pod, container>> of the statuses that qualify
Qualifying(pods) ==
    { q \in UNION { { <<i, j>> : j \in 1..Len(pods[i]) } : i \in 1..Len(pods) } :
        LET st == pods[q[1]][q[2]]
        IN  st.Terminated /\ st.ExitCode = 0 /\ st.Message # 0 }

\* the first of them in pod order, then container order
FirstQualifying(pods) ==
    CHOOSE q \in Qualifying(pods) :
        \A o \in Qualifying(pods) : q[1] < o[1] \/ (q[1] = o[1] /\ q[2] <= o[2])

ExpectedOutput(pods) ==
    IF Qualifying(pods) = {} THEN [data |-> 0, err |-> "ErrJobNoOutput"]
    ELSE LET q == FirstQualifying(pods)
         IN  [data |-> pods[q[1]][q[2]].Message, err |-> "nil"]

C23_FirstQualifyingMessage ==
    /\ Len(jobs.pods) > 0 => getJobOutput(jobs.pods) = ExpectedOutput(jobs.pods)
    /\ \A p \in Procs : \A n \in DescNames :
          LET r == pass[p]
              log == r.log
          IN  \A i \in 1..Len(log) :
                 (log[i].op = "pods" /\ log[i].name = n /\ log[i].res \notin StoreFaults
                    /\ Len(jobs.pods) > 0)
                 => /\ log[i].res = ExpectedOutput(jobs.pods).err
                    /\ (log[i].res = "ErrJobNoOutput" /\ i + 1 <= Len(log)
                          /\ MainReturn(log, i + 1))
                       => /\ log[i + 2] = Ev("outcome", n, "errored")
                          /\ InList(r.errored, Errored(n, "ErrJobNoOutput"))
                    /\ (log[i].res = "nil" /\ app.Secrets[n].Params.format = "text")
                       => /\ n \in DOMAIN r.secrets
                          /\ r.secrets[n].Data["content"]
                               = Payload(ExpectedOutput(jobs.pods).data)

\* the first pod's only container exited non-zero; in the second pod the
\* first container has an empty message and the second carries payload 1
C23_Witness ==
    /\ Len(jobs.pods) = 2
    /\ FirstQualifying(jobs.pods) = <<2, 2>>
    /\ pass[1].pc = "done"
    /\ IsGenerated("a") /\ app.Secrets["a"].Params.format = "text"
    /\ "a" \in DOMAIN pass[1].secrets
    /\ pass[1].secrets["a"].Data["content"] = Payload(1)

\* no status qualifies: the descriptor is errored with ErrJobNoOutput
C23_WitnessNoOutput ==
    /\ Len(jobs.pods) = 1
    /\ Qualifying(jobs.pods) = {}
    /\ pass[1].pc = "done"
    /\ pass[1].errored = <<Errored("a", "ErrJobNoOutput")>>

(***************************************************************************)
(* C24.  For a generated descriptor whose job payload was obtained: format  *)
(* "text" gives data with the field content equal to the raw payload and    *)
(* type Opaque; format "json" merges the payload's fields into the data and *)
(* overrides the type only when the payload carries a non-empty one, and a  *)
(* payload that does not parse makes the descriptor errored; any other or   *)
(* absent format adds no field derived from the payload.                    *)
(***************************************************************************)
\* the pass of r obtained the payload for n
PayloadObtained(r, n) ==
    \E i \in 1..Len(r.log) : r.log[i] = Ev("pods", n, "nil")

C24_FormatDecidesData ==
    \A p \in Procs : \A n \in DescNames :
       LET r == pass[p]
           out == ExpectedOutput(jobs.pods).data
       IN  (IsGenerated(n) /\ PayloadObtained(r, n))
           => LET fmt == app.Secrets[n].Params.format
              IN  CASE fmt = "text" ->
                         /\ n \in DOMAIN r.secrets
                         /\ DOMAIN r.secrets[n].Data = {"content"}
                         /\ r.secrets[n].Data["content"] = Payload(out)
                         /\ r.secrets[n].Type = "Opaque"
                    [] fmt = "json" /\ Unmarshal(out).err = "nil" ->
                         /\ n \in DOMAIN r.secrets
                         /\ r.secrets[n].Data = Unmarshal(out).Data
                         /\ r.secrets[n].Type = IF Unmarshal(out).Type = ""
                                                THEN "Opaque" ELSE Unmarshal(out).Type
                    [] fmt = "json" /\ Unmarshal(out).err # "nil" ->
                         /\ n \notin DOMAIN r.secrets
                         /\ \A i \in 1..Len(r.log) :
                               (r.log[i] = Ev("pods", n, "nil") /\ i + 1 <= Len(r.log))
                               => /\ r.log[i + 1] = Ev("return", n, Unmarshal(out).err)
                                  /\ MainReturn(r.log, i + 1)
                                     => /\ r.log[i + 2] = Ev("outcome", n, "errored")
                                        /\ InList(r.errored,
                                                  Errored(n, Unmarshal(out).err))
                    [] OTHER ->
                         /\ n \in DOMAIN r.secrets
                         /\ r.secrets[n].Data = NoData
                         /\ r.secrets[n].Type = "Opaque"

\* a json payload without a type tag: the field is merged, the type stays
C24_Witness ==
    /\ pass[1].pc = "done"
    /\ IsGenerated("a") /\ app.Secrets["a"].Params.format = "json"
    /\ PayloadObtained(pass[1], "a")
    /\ "a" \in DOMAIN pass[1].secrets
    /\ pass[1].secrets["a"].Type = "Opaque"
    /\ pass[1].secrets["a"].Data = Unmarshal(3).Data

\* a json payload with a type tag
C24_WitnessTyped ==
    /\ pass[1].pc = "done"
    /\ IsGenerated("a") /\ app.Secrets["a"].Params.format = "json"
    /\ "a" \in DOMAIN pass[1].secrets
    /\ pass[1].secrets["a"].Type = "custom"

\* a payload that does not parse
C24_WitnessUnparsable ==
    /\ pass[1].pc = "done"
    /\ PayloadObtained(pass[1], "a")
    /\ pass[1].errored = <<Errored("a", "ErrJSON")>>

\* no format: nothing of the payload is kept
C24_WitnessNoFormat ==
    /\ pass[1].pc = "done"
    /\ IsGenerated("a") /\ app.Secrets["a"].Params.format = ""
    /\ PayloadObtained(pass[1], "a")
    /\ "a" \in DOMAIN pass[1].secrets
    /\ pass[1].secrets["a"].Data = NoData

(***************************************************************************)
(* C25.  For a basic descriptor with no stored object and no binding, each  *)
(* of username and password is the seed when the seed is non-empty, and     *)
(* otherwise a generated token of length exactly 8 for the username and     *)
(* exactly 16 for the password, in the stored object and in the projection. *)
(***************************************************************************)
\* what the claim allows for key k of descriptor ref to hold v
BasicValueOK(ref, k, v) ==
    IF At(ref.Data, k).len > 0 THEN v = At(ref.Data, k)
    ELSE /\ v.k = "token"
         /\ v.len = IF k = "username" THEN 8 ELSE 16

BasicDataOK(ref, data) ==
    /\ {"username", "password"} \subseteq DOMAIN data
    /\ \A k \in {"username", "password"} : BasicValueOK(ref, k, data[k])

C25_BasicFields ==
    \A p \in Procs : \A n \in DescNames :
       LET r == pass[p]
       IN  (/\ n \in DOMAIN app.Secrets
            /\ app.Secrets[n].Type = "basic"
            /\ ~HasBinding(n)
            /\ r.pc # "idle"
            /\ HeldFor(r.store0, n) = {}
            /\ \E i \in 1..Len(r.log) : r.log[i] = Ev("create", n, "nil"))
           => /\ HeldFor(store, n) # {}
              /\ \A o \in HeldFor(store, n) : BasicDataOK(app.Secrets[n], o.Data)
              /\ n \in DOMAIN r.secrets
              /\ BasicDataOK(app.Secrets[n], r.secrets[n].Data)
              /\ \A i \in 1..Len(r.objects) :
                    r.objects[i].Name = n => BasicDataOK(app.Secrets[n], r.objects[i].Data)

\* the example of the specification: an empty username seed next to a seeded
\* password gives an 8-character username and keeps the password
C25_Witness ==
    /\ pass[1].pc = "done"
    /\ "a" \in DOMAIN app.Secrets
    /\ app.Secrets["a"].Data = SeededPassword
    /\ app.Bindings = <<>> /\ pass[1].store0 = <<>>
    /\ Len(pass[1].objects) = 1
    /\ pass[1].objects[1].Name = "a"
    /\ pass[1].objects[1].Data["username"].k = "token"
    /\ pass[1].objects[1].Data["username"].len = 8
    /\ pass[1].objects[1].Data["password"] = SeededPassword["password"]
    /\ Len(store) = 1 /\ store[1].Data = pass[1].objects[1].Data

\* nothing seeded: both fields are tokens, 8 and 16 long
C25_WitnessUnseeded ==
    /\ pass[1].pc = "done"
    /\ DOMAIN app.Secrets = {"a"}
    /\ app.Secrets["a"].Type = "basic" /\ app.Secrets["a"].Data = NoData
    /\ app.Bindings = <<>> /\ pass[1].store0 = <<>>
    /\ Len(pass[1].objects) = 1
    /\ pass[1].objects[1].Data["username"].len = 8
    /\ pass[1].objects[1].Data["password"].len = 16
    /\ pass[1].objects[1].Data["password"].k = "token"

(***************************************************************************)
(* C26.  When the caSecret references between the descriptors contain no    *)
(* cycle and the store answers every call, every CreateSecrets pass that    *)
(* has started ends with a condition set, and the resolver is never         *)
(* re-entered more deeply than there are descriptors.                       *)
(***************************************************************************)
\* the descriptor n names as its CA, "" when it names none
CAOf(n) ==
    IF n \in DOMAIN app.Secrets /\ app.Secrets[n].Type = "tls"
    THEN app.Secrets[n].Params.caSecret ELSE ""

\* n is on a cycle of caSecret references (at most three descriptors)
OnCycle(n) == n \in {CAOf(n), CAOf(CAOf(n)), CAOf(CAOf(CAOf(n)))}

Acyclic == \A n \in DOMAIN app.Secrets : ~OnCycle(n)

Running(p) == pass[p].pc \notin {"idle", "done"}

EndedWithCondition(p) == pass[p].pc = "done" /\ pass[p].cond.status # "none"

\* re-entries of the resolver below the call of the main loop
ReentryDepth(p) == IF pass[p].stack = <<>> THEN 0 ELSE Len(pass[p].stack) - 1

C26_AcyclicTerminates ==
    /\ [](Acyclic => \A p \in Procs : ReentryDepth(p) <= Cardinality(DOMAIN app.Secrets))
    /\ \A p \in Procs : (Acyclic /\ Running(p)) ~> EndedWithCondition(p)

\* a leaf whose CA is another descriptor: the resolver was re-entered for the
\* CA, and the pass ended with the condition set
C26_Witness ==
    /\ Acyclic
    /\ DOMAIN app.Secrets = {"a", "b"}
    /\ CAOf("a") = "b"
    /\ EndedWithCondition(1)
    /\ \E i \in 1..Len(pass[1].log) - 1 :
          /\ pass[1].log[i] = Ev("generate", "a", "tls")
          /\ pass[1].log[i + 1] = Ev("resolve", "b", "")

\* the deepest nesting the bound allows: one descriptor, whose CA is no
\* descriptor, gives one re-entry
C26_WitnessDepth ==
    /\ Acyclic
    /\ DOMAIN app.Secrets = {"a"}
    /\ ReentryDepth(1) = 1

(***************************************************************************)
(* C27.  When several passes of the same application run concurrently,      *)
(* with their store calls interleaved in any way, then once they have all   *)
(* finished every later pass resolves each descriptor to one and the same   *)
(* stored object, the one with the smallest identifier among those created, *)
(* creates no further object, and projects that object's data.              *)
(***************************************************************************)
\* the call of worker p started after the concurrent calls had all finished
LaterPass(p) == pass[p].pc # "idle" /\ pass[p].settled

ResolvedIn(r, n) == \E i \in 1..Len(r.log) : r.log[i] = Ev("outcome", n, "resolved")

\* what the claim says of descriptor n in the later pass of p
ConvergedOn(p, n) ==
    LET r == pass[p]
    IN  /\ \A i \in 1..Len(r.log) : r.log[i].op # "create"
        /\ store = r.store0
        /\ ResolvedIn(r, n)
           => /\ HeldFor(store, n) # {}
              /\ n \in DOMAIN r.secrets
              /\ r.secrets[n] = Canonical(store, n)
              /\ \A i \in 1..Len(r.objects) :
                    r.objects[i].Name = n
                    => r.objects[i].Data = Canonical(store, n).Data

C27_LaterPassConverges ==
    \A p \in Procs : \A n \in DOMAIN app.Secrets :
        (LaterPass(p) /\ ~HasBinding(n)) => ConvergedOn(p, n)

\* C27 for the descriptors whose generator persists what it returns
C27_PersistedConverge ==
    \A p \in Procs : \A n \in DOMAIN app.Secrets :
        (LaterPass(p) /\ ~HasBinding(n) /\ ~IsGenerated(n)) => ConvergedOn(p, n)

\* both workers created a CA and a leaf before either saw the other's; the
\* later pass takes the smallest UID of each
C27_WitnessPersisted ==
    /\ Cardinality(HeldFor(store, "a")) = 2
    /\ Cardinality(HeldFor(store, "b")) = 2
    /\ LaterPass(1)
    /\ pass[1].pc = "done"
    /\ ResolvedIn(pass[1], "a") /\ ResolvedIn(pass[1], "b")
    /\ pass[1].secrets["a"] = Canonical(store, "a")
    /\ store[1].SecretName = "b" /\ pass[1].secrets["b"] # store[1]

(***************************************************************************)
(* C28.  In the aggregate error message the missing entries are in          *)
(* ascending alphabetical order of descriptor name, and so are the errored  *)
(* entries, for every set of names (also when one name is a prefix of       *)
(* another, such as a and a-b) and every error cause.                       *)
(***************************************************************************)
\* list[i] comes before list[i + 1] in the order of names, for every i
NamesAscend(names) ==
    \A i \in 1..Len(names) - 1 : StrLess(names[i], names[i + 1])

NamesOf(errored) == [i \in 1..Len(errored) |-> errored[i].name]

\* the pass of worker p ended with the aggregate message
Aggregated(p) ==
    /\ pass[p].pc = "done"
    /\ pass[p].err = "nil"
    /\ pass[p].cond = Cond("error", Message(pass[p].missing, pass[p].errored))

C28_MissingSortedByName ==
    \A p \in Procs :
        Aggregated(p)
        => /\ NamesAscend(pass[p].missing)
           /\ Message(pass[p].missing, <<>>)
                = IF pass[p].missing = <<>> THEN ""
                  ELSE "missing: [" \o Join(pass[p].missing) \o "]"

C28_SortedByName ==
    \A p \in Procs :
        Aggregated(p)
        => /\ NamesAscend(pass[p].missing)
           /\ NamesAscend(NamesOf(pass[p].errored))

\* the prefix case is reached: a-b is listed before a
C28_WitnessPrefix ==
    /\ Aggregated(1)
    /\ NamesOf(pass[1].errored) = <<"a-b", "a", "b">>

(***************************************************************************)
(* C29.  If two TLS descriptors name each other as caSecret, or one names   *)
(* itself, and none of them has a binding, a stored object, seeded cert and *)
(* key, or seeded CA material, then resolving one of them re-enters the     *)
(* resolver without bound: the pass never returns, never sets a condition,  *)
(* and no cycle error is reported.                                          *)
(***************************************************************************)
CycleOf(n) == {n, CAOf(n), CAOf(CAOf(n))}

Unseeded(ref) ==
    \A k \in {"tls.crt", "tls.key", "ca.crt", "ca.key"} : At(ref.Data, k).len = 0

\* n is on a cycle none of whose descriptors is resolved in another way
CycleOpen(n) ==
    /\ n \in DOMAIN app.Secrets
    /\ OnCycle(n)
    /\ \A m \in CycleOf(n) :
          /\ m \in DOMAIN app.Secrets
          /\ app.Secrets[m].Type = "tls"
          /\ app.Secrets[m].Params.ok
          /\ Unseeded(app.Secrets[m])
          /\ ~HasBinding(m)
          /\ HeldFor(store, m) = {}

\* the pass of worker p has begun to generate a descriptor of an open cycle,
\* and the store has answered every call since without a fault
InCycle(p) ==
    /\ ~FaultSeen(pass[p])
    /\ \E n \in DescNames :
          /\ CycleOpen(n)
          /\ \E i \in 1..Len(pass[p].log) : pass[p].log[i] = Ev("generate", n, "tls")

C29_CycleRecurses ==
    /\ [](\A p \in Procs :
            InCycle(p)
            => /\ Running(p)
               /\ pass[p].cond = NoCond
               /\ pass[p].condCalls = 0
               /\ \A i \in 1..Len(pass[p].log) :
                     /\ pass[p].log[i].op = "return" => ~CycleOpen(pass[p].log[i].name)
                     /\ pass[p].log[i].op = "outcome" => ~CycleOpen(pass[p].log[i].name)
               /\ \A i \in 1..Len(pass[p].errored) : ~CycleOpen(pass[p].errored[i].name)
               /\ \A i \in 1..Len(pass[p].missing) : ~CycleOpen(pass[p].missing[i]))
    /\ \A p \in Procs : (InCycle(p) /\ faults = 0) ~> (Len(pass[p].stack) = MaxDepth)

\* a and b name each other: the call stack has grown beyond the number of
\* descriptors
C29_Witness ==
    /\ InCycle(1)
    /\ DOMAIN app.Secrets = {"a", "b"}
    /\ CAOf("a") = "b" /\ CAOf("b") = "a"
    /\ pass[1].stack = <<"a", "b", "a", "b">>

\* a descriptor that names itself
C29_WitnessSelf ==
    /\ InCycle(1)
    /\ DOMAIN app.Secrets = {"a"}
    /\ pass[1].stack = <<"a", "a", "a", "a">>

(***************************************************************************)
(* C30.  When the randomness source fails while generateBasic fills an      *)
(* unseeded username or password, generateBasic returns that error without  *)
(* creating a store object and without crashing, so the descriptor is       *)
(* classified errored and the remaining descriptors are still processed.    *)
(***************************************************************************)
\* the token source failed for descriptor n in the call of r
TokenFailed(r, n) == \E i \in 1..Len(r.log) : r.log[i] = Ev("token", n, "ErrRandom")

C30_RandomFailureIsErrored ==
    \A p \in Procs : \A n \in DescNames :
        LET r == pass[p]
        IN  TokenFailed(r, n)
            => /\ r.pc # "panic"
               /\ \A i \in 1..Len(r.log) : r.log[i] # Ev("create", n, "nil")
               /\ (r.pc = "done" /\ ~FaultSeen(r))
                  => /\ InList(r.errored, Errored(n, "ErrRandom"))
                     /\ \A m \in DOMAIN app.Secrets :
                           \E i \in 1..Len(r.log) :
                              r.log[i].op = "outcome" /\ r.log[i].name = m

\* what the code does instead: the call is gone, nothing was created, the
\* descriptor is in no list, and the deferred function reported success
C30_WitnessPanic ==
    /\ DOMAIN app.Secrets = {"a", "b"}
    /\ TokenFailed(pass[1], "a")
    /\ pass[1].pc = "panic"
    /\ pass[1].errored = <<>>
    /\ pass[1].cond = Cond("success", "")
    /\ ~ResolvedIn(pass[1], "b")
    /\ store = <<>>

(***************************************************************************)
(* C31.  In a single pass at most one store Create is issued per descriptor *)
(* name, counting the main loop and all caSecret re-entries together, and   *)
(* a Create is issued only for a name that had no binding and no labelled   *)
(* stored object at the moment of its lookup.                               *)
(***************************************************************************)
\* the Create calls of the log for name n, whatever the store answered
CreatesOf(log, n) == { i \in 1..Len(log) : log[i].op = "create" /\ log[i].name = n }

C31_OneCreatePerName ==
    \A p \in Procs : \A n \in SecretNames :
        LET r == pass[p]
        IN  /\ Cardinality(CreatesOf(r.log, n)) <= 1
            /\ CreatesOf(r.log, n) # {}
               => /\ n \in DOMAIN app.Secrets
                  /\ ~HasBinding(n)
                  /\ HeldFor(r.store0, n) = {}
                  /\ \E j \in 1..Len(r.log) :
                        /\ r.log[j] = Ev("list", n, "NotFound")
                        /\ \A i \in CreatesOf(r.log, n) : j < i

\* the test's case: the CA is created inside the leaf's generation, the leaf
\* after it, and the main loop then finds the CA in the cache
C31_Witness ==
    /\ pass[1].pc = "done"
    /\ DOMAIN app.Secrets = {"a", "b"}
    /\ CAOf("a") = "b"
    /\ Cardinality(CreatesOf(pass[1].log, "a")) = 1
    /\ Cardinality(CreatesOf(pass[1].log, "b")) = 1
    /\ \E i \in 1..Len(pass[1].log) : pass[1].log[i] = Ev("hit", "b", "")
    /\ Len(store) = 2

(***************************************************************************)
(* C32.  When a TLS descriptor without seeded cert, key or CA material      *)
(* names a caSecret that has no binding, no stored object and no            *)
(* descriptor, the absence of the CA propagates to the leaf: the leaf is    *)
(* listed as missing under its own name if it is required and is skipped    *)
(* if it is optional, it is not reported as errored, and no storage object  *)
(* is created for the leaf.                                                 *)
(***************************************************************************)
\* l is such a leaf in the pass r (and is itself neither bound nor stored)
OrphanLeaf(r, l) ==
    /\ l \in DOMAIN app.Secrets
    /\ app.Secrets[l].Type = "tls"
    /\ app.Secrets[l].Params.ok
    /\ Unseeded(app.Secrets[l])
    /\ ~HasBinding(l)
    /\ HeldFor(r.store0, l) = {}
    /\ LET ca == app.Secrets[l].Params.caSecret
       IN  /\ ca # ""
           /\ ca \notin DOMAIN app.Secrets
           /\ ~HasBinding(ca)
           /\ HeldFor(r.store0, ca) = {}

C32_AbsentCAPropagates ==
    \A p \in Procs : \A l \in DescNames :
        LET r == pass[p]
            expected == IF Required(app.Secrets[l]) THEN "missing" ELSE "skipped"
        IN  (r.pc # "idle" /\ OrphanLeaf(r, l))
            => /\ CreatesOf(r.log, l) = {}
               /\ HeldFor(store, l) = {}
               /\ \A i \in 1..Len(r.errored) : r.errored[i].name # l
               /\ \A i \in 1..Len(r.objects) : r.objects[i].Name # l
               /\ InList(r.missing, l) => Required(app.Secrets[l])
               /\ \A i \in 1..Len(r.log) :
                     (r.log[i].op = "outcome" /\ r.log[i].name = l)
                     => \/ r.log[i].res = expected
                        \/ r.log[i].res = "fatal" /\ FaultSeen(r)
               /\ (r.pc = "done" /\ ~FaultSeen(r))
                  => /\ InList(r.missing, l) <=> Required(app.Secrets[l])
                     /\ \E i \in 1..Len(r.log) : r.log[i] = Ev("outcome", l, expected)

\* a required leaf whose CA is nowhere: missing under the leaf's name
C32_Witness ==
    /\ pass[1].pc = "done"
    /\ DOMAIN app.Secrets = {"a"}
    /\ OrphanLeaf(pass[1], "a")
    /\ Required(app.Secrets["a"])
    /\ ~FaultSeen(pass[1])
    /\ pass[1].missing = <<"a">>
    /\ pass[1].errored = <<>>
    /\ \E i \in 1..Len(pass[1].log) :
          pass[1].log[i] = Ev("return", app.Secrets["a"].Params.caSecret, "NotFound")

\* an optional leaf: skipped, the pass succeeds
C32_WitnessOptional ==
    /\ pass[1].pc = "done"
    /\ DOMAIN app.Secrets = {"a"}
    /\ OrphanLeaf(pass[1], "a")
    /\ ~Required(app.Secrets["a"])
    /\ ~FaultSeen(pass[1])
    /\ pass[1].missing = <<>>
    /\ pass[1].cond = Cond("success", "")

(***************************************************************************)
(* C33.  A descriptor whose type is none of docker, basic, tls, ssh-auth or *)
(* generated is never generated: with no binding and no labelled stored     *)
(* object it creates nothing and is classified missing when required and    *)
(* skipped when optional; with a binding or a labelled stored object it     *)
(* resolves to that object and is projected.                                *)
(***************************************************************************)
GeneratorTypes == {"docker", "basic", "tls", "ssh-auth", "generated"}

DefaultTyped(n) == n \in DOMAIN app.Secrets /\ app.Secrets[n].Type \notin GeneratorTypes

\* the existing secret the first binding of n names, if it names one
BoundSecret(n) == Externals[app.Bindings[FirstBinding(app.Bindings, n, 1)].Secret]

BoundToExisting(n) ==
    /\ HasBinding(n)
    /\ app.Bindings[FirstBinding(app.Bindings, n, 1)].Secret \in DOMAIN Externals

ProjectedAs(r, n, secret) ==
    \E i \in 1..Len(r.objects) :
        /\ r.objects[i].Name = n
        /\ r.objects[i].Data = secret.Data
        /\ r.objects[i].Type = secret.Type

C33_DefaultTypeNeverGenerated ==
    \A p \in Procs : \A n \in DescNames :
        LET r == pass[p]
            log == r.log
        IN  (r.pc # "idle" /\ DefaultTyped(n))
            => /\ CreatesOf(log, n) = {}
               /\ \A i \in 1..Len(log) : ~(log[i].op = "generate" /\ log[i].name = n)
               /\ \A i \in 1..Len(r.errored) : r.errored[i].name # n
               /\ \A i \in 1..Len(log) :
                     (log[i].op = "outcome" /\ log[i].name = n /\ ~FaultSeen(r))
                     => IF BoundToExisting(n)
                        THEN /\ log[i].res = "resolved"
                             /\ r.secrets[n] = BoundSecret(n)
                             /\ ProjectedAs(r, n, BoundSecret(n))
                        ELSE IF ~HasBinding(n) /\ HeldFor(r.store0, n) # {}
                        THEN /\ log[i].res = "resolved"
                             /\ r.secrets[n] = Canonical(r.store0, n)
                             /\ ProjectedAs(r, n, Canonical(r.store0, n))
                        ELSE /\ log[i].res = IF Required(app.Secrets[n])
                                             THEN "missing" ELSE "skipped"
                             /\ n \notin DOMAIN r.secrets
                             /\ HeldFor(store, n) = {} \/ HasBinding(n)

\* neither bound nor stored and required: missing, nothing created
C33_Witness ==
    /\ pass[1].pc = "done"
    /\ DOMAIN app.Secrets = {"a"}
    /\ DefaultTyped("a") /\ Required(app.Secrets["a"])
    /\ app.Bindings = <<>> /\ store = <<>>
    /\ pass[1].missing = <<"a">>

\* optional: skipped
C33_WitnessSkipped ==
    /\ pass[1].pc = "done"
    /\ DOMAIN app.Secrets = {"a"}
    /\ DefaultTyped("a") /\ ~Required(app.Secrets["a"])
    /\ app.Bindings = <<>> /\ store = <<>>
    /\ pass[1].cond = Cond("success", "")
    /\ pass[1].objects = <<>>

\* bound to an existing secret: resolved to it
C33_WitnessBound ==
    /\ pass[1].pc = "done"
    /\ DefaultTyped("a") /\ BoundToExisting("a")
    /\ ProjectedAs(pass[1], "a", BoundSecret("a"))

\* a labelled stored object: adopted
C33_WitnessStored ==
    /\ pass[1].pc = "done"
    /\ DefaultTyped("a") /\ ~HasBinding("a")
    /\ HeldFor(pass[1].store0, "a") # {}
    /\ ProjectedAs(pass[1], "a", Canonical(pass[1].store0, "a"))

(***************************************************************************)
(* C34.  The data of a secret produced by the generated generator depends   *)
(* only on the job payload and params.format, never on the descriptor's     *)
(* seedData: two descriptors that differ only in seedData resolve to        *)
(* identical data, and with an unknown or absent format the data is empty.  *)
(***************************************************************************)
SeedChoices == {NoData, SeededContent, SeededUser, SeededCA}

\* the descriptors a and b differ in nothing but their seedData
DifferInSeedsOnly(a, b) ==
    /\ a \in DOMAIN app.Secrets /\ b \in DOMAIN app.Secrets
    /\ app.Secrets[a].Data # app.Secrets[b].Data
    /\ [app.Secrets[a] EXCEPT !.Data = NoData] = [app.Secrets[b] EXCEPT !.Data = NoData]

C34_SeedsDoNotReachData ==
    /\ \A n \in DescNames : \A seeds \in SeedChoices :
          IsGenerated(n)
          => LET out == ExpectedOutput(jobs.pods).data
                 with == generatedSecret(n, [app.Secrets[n] EXCEPT !.Data = seeds], out)
                 without == generatedSecret(n, [app.Secrets[n] EXCEPT !.Data = NoData], out)
             IN  with = without
    /\ \A p \in Procs : \A a, b \in DescNames :
          LET r == pass[p]
          IN  /\ (/\ IsGenerated(a) /\ IsGenerated(b) /\ DifferInSeedsOnly(a, b)
                  /\ PayloadObtained(r, a) /\ PayloadObtained(r, b))
                 => /\ a \in DOMAIN r.secrets <=> b \in DOMAIN r.secrets
                    /\ a \in DOMAIN r.secrets
                       => /\ r.secrets[a].Data = r.secrets[b].Data
                          /\ r.secrets[a].Type = r.secrets[b].Type
              /\ (/\ IsGenerated(a) /\ PayloadObtained(r, a)
                  /\ app.Secrets[a].Params.format \notin {"text", "json"})
                 => /\ a \in DOMAIN r.secrets
                    /\ r.secrets[a].Data = NoData

\* json payload with the field key: a seeded content field would show next
\* to it, and does not
C34_Witness ==
    /\ pass[1].pc = "done"
    /\ DifferInSeedsOnly("a", "b")
    /\ app.Secrets["b"].Data = SeededContent
    /\ app.Secrets["b"].Params.format = "json"
    /\ {"a", "b"} \subseteq DOMAIN pass[1].secrets
    /\ DOMAIN pass[1].secrets["b"].Data = {"key"}
    /\ pass[1].secrets["a"].Data = pass[1].secrets["b"].Data

\* no format: the data is empty although the descriptor is seeded
C34_WitnessEmpty ==
    /\ pass[1].pc = "done"
    /\ DifferInSeedsOnly("a", "b")
    /\ app.Secrets["b"].Data = SeededUser
    /\ app.Secrets["b"].Params.format = ""
    /\ {"a", "b"} \subseteq DOMAIN pass[1].secrets
    /\ pass[1].secrets["b"].Data = NoData
    /\ Len(pass[1].objects) = 2
    /\ pass[1].objects[2].Data = NoData

(***************************************************************************)
(* C35.  When two passes of the same application interleave their store     *)
(* calls (both may search by label before either creates), the two passes   *)
(* project identical data for every descriptor they both resolve, and the   *)
(* store ends with at most one object per (application, descriptor name)    *)
(* label set.                                                               *)
(***************************************************************************)
\* the data the call of r projects for n
ProjectedData(r, n) ==
    { r.objects[i].Data : i \in { j \in 1..Len(r.objects) : r.objects[j].Name = n } }

C35_InterleavedPassesAgree ==
    \A n \in DOMAIN app.Secrets :
        /\ Cardinality(HeldFor(store, n)) <= 1
        /\ \A p, q \in Procs :
              \A d \in ProjectedData(pass[p], n) : \A e \in ProjectedData(pass[q], n) : d = e

(***************************************************************************)
(* C35 as the code has it: both passes may search before either creates,    *)
(* and then each creates an object of its own.  The store ends with at most *)
(* one object per label set for each worker that ran concurrently, every    *)
(* pass projects the data of the secret it resolved itself, and a stored    *)
(* secret it resolved is one of the labelled objects.                       *)
(***************************************************************************)
C35_OneObjectPerWorker ==
    \A n \in DOMAIN app.Secrets :
        /\ Cardinality(HeldFor(store, n)) <= Cardinality(workers)
        /\ \A p \in Procs :
              LET r == pass[p]
              IN  /\ \A d \in ProjectedData(r, n) :
                        n \in DOMAIN r.secrets /\ d = r.secrets[n].Data
                  /\ (n \in DOMAIN r.secrets /\ r.secrets[n].UID # 0)
                     => r.secrets[n] \in HeldFor(store, n)

\* both workers searched before either created: two objects for a, and the
\* two finished passes project different tokens
C35_Witness ==
    /\ pass[1].pc = "done" /\ pass[2].pc = "done"
    /\ pass[1].n = 1 /\ pass[2].n = 1
    /\ "a" \in DOMAIN app.Secrets /\ app.Secrets["a"].Type = "basic"
    /\ Cardinality(HeldFor(store, "a")) = 2
    /\ ProjectedData(pass[1], "a") # {}
    /\ ProjectedData(pass[2], "a") # {}
    /\ ProjectedData(pass[1], "a") # ProjectedData(pass[2], "a")

(***************************************************************************)
(* C36.  In readInput the reader goroutine never sends on a channel that    *)
(* has been closed: for every outcome of the stdin read (success, deadline  *)
(* expiry or other error) the channel readSomething sees either one send or *)
(* one close, not a close followed by a send.                               *)
(***************************************************************************)
C36_NoSendOnClosedChannel ==
    /\ dev.rg.ops \in {<<>>, <<"send">>, <<"close">>}
    /\ ~dev.panic

\* what the code does after a failed read: close, then the send
C36_WitnessPanic ==
    /\ dev.rg.ops = <<"close", "send">>
    /\ dev.panic

(***************************************************************************)
(* C37.  After the context passed to Dev is cancelled, all four loops       *)
(* (readInput, buildLoop, runLoop, logLoop) eventually return and Dev       *)
(* returns, under every interleaving and every fill state of the channels   *)
(* trigger, images and apps; no loop stays blocked forever on a channel     *)
(* send whose receiver has already exited.  (Runs that end in the panic of  *)
(* C36 are left aside.)                                                     *)
(***************************************************************************)
\* eg.Wait returns: the four functions have returned
AllReturned ==
    /\ dev.ri = "returned" /\ dev.bl = "returned"
    /\ dev.rl = "returned" /\ dev.ll = "returned"

C37_AllLoopsReturn ==
    (dev.ctx = "cancelled" /\ ~dev.panic) ~> (AllReturned \/ dev.panic)

\* readInput at trigger <- with the buffer full after buildLoop returned
StuckReadInput ==
    ~dev.panic /\ dev.ri = "trigger" /\ dev.trigger = 1 /\ dev.bl = "returned"

\* buildLoop at result <- with the buffer full after runLoop returned
StuckBuildLoop ==
    ~dev.panic /\ dev.bl = "result" /\ dev.images = 1 /\ dev.rl = "returned"

\* runLoop at apps <- with the buffer full after logLoop returned
StuckRunLoop ==
    ~dev.panic /\ dev.rl = "apps" /\ dev.apps = 1 /\ dev.ll = "returned"

\* the claim's last clause as a state property
C37_NoSendToExitedReceiver == ~StuckReadInput /\ ~StuckBuildLoop /\ ~StuckRunLoop

====
